---- MODULE Spec2Model ----
(***************************************************************************)
(* Model of the Okta security health check: the paginated System Log       *)
(* client (src/oktaClient.js), the sequential detection runner             *)
(* (src/detectionRunner.js), the rule loader with its cache fallback        *)
(* (src/detectionLoader.js) and the command-line entry point (src/index.js).*)
(* Each asynchronous function is a frame (a record variable whose fields    *)
(* carry the names of the function's locals) and one action per stretch of  *)
(* code between two awaits.                                                 *)
(***************************************************************************)
EXTENDS Integers, Sequences, FiniteSets, TLC

\* ------------------------------------------------------------------ bounds
\* pages a mock log server holds, events per page, the limit argument
MaxPages == 3
MaxPageSize == 2
MaxLimit == 3
\* the rules of one run
MaxRules == 3
\* files one remote collection lists
MaxFiles == 2
\* descriptors the find of runSpecificDetection runs over
MaxFound == 3
\* entries of the summary a report is written from
MaxResults == 5

\* ------------------------------------------------------------- JS values
Undefined == "undefined"
BaseUrl == "https://tenant/api/v1"
Truthy(s) == s /= Undefined /\ s /= ""

Min(a, b) == IF a <= b THEN a ELSE b
Range(s) == {s[k] : k \in DOMAIN s}
Ids(a, b) == [k \in 1..(b - a + 1) |-> a + k - 1]

RECURSIVE SumSeq(_)
SumSeq(s) == IF s = <<>> THEN 0 ELSE s[1] + SumSeq(Tail(s))

\* ------------------------------------------------------------- errors
\* An error object as the code reads it: error.response (status, statusText,
\* data.errorSummary), error.request, error.message.
MkError(msg) ==
  [hasResponse |-> FALSE, status |-> Undefined, statusText |-> Undefined,
   dataShape |-> Undefined, errorSummary |-> Undefined,
   hasRequest |-> FALSE, message |-> msg]

HttpError(status, statusText, dataShape, errorSummary) ==
  [hasResponse |-> TRUE, status |-> status, statusText |-> statusText,
   dataShape |-> dataShape, errorSummary |-> errorSummary,
   hasRequest |-> TRUE,
   message |-> <<"Request failed with status code ", status>>]

NetworkError ==
  [MkError(<<"connect ECONNREFUSED">>) EXCEPT !.hasRequest = TRUE]

SetupError == MkError(<<"Invalid URL">>)

NoError == MkError(<<>>)

\* new TypeError raised by reading a property of null or undefined
TypeError(what) == MkError(<<"TypeError: Cannot read properties of ", what>>)

\* 401 with an errorSummary, 429 whose body has no errorSummary, 500 with an
\* HTML (string) body, 502 whose body is JSON null
Err401 == HttpError("401", "Unauthorized", "object", "Invalid token provided")
Err429 == HttpError("429", "Too Many Requests", "object", Undefined)
Err500 == HttpError("500", "Internal Server Error", "string", Undefined)
Err502 == HttpError("502", "Bad Gateway", "null", Undefined)

AxiosErrors == {Err401, Err429, Err500, Err502, NetworkError, SetupError}
RunAxiosErrors == {Err401, NetworkError}

\* ------------------------------------------------------------- log server
\* A response of the log endpoint: a 2xx page whose body is an array of events
\* ("ok"), a 2xx page whose body is not iterable ("okNotArray"), or a rejected
\* request ("fail"). link is the Link header: absent ("none"), present without
\* rel="next" ("self"), `<url>; rel="next"` ("next"), or a header that contains
\* rel="next" in another position than right after the URL ("unparsed").
LinkKinds == {"none", "self", "next", "unparsed"}

Shapes(maxSize, links, errors) ==
  { [type |-> "ok", n |-> n, link |-> l, error |-> NoError] :
      n \in 0..maxSize, l \in links }
  \cup { [type |-> "okNotArray", n |-> 0, link |-> "none", error |-> NoError] }
  \cup { [type |-> "fail", n |-> 0, link |-> "none", error |-> e] : e \in errors }

\* a server of N responses: every response but the last is a page that points
\* at the next one; the last one ends the log or fails
Skeletons(maxPages, maxSize, links, errors) ==
  UNION { { s \in [1..n -> Shapes(maxSize, links, errors)] :
              /\ \A k \in 1..(n - 1) :
                   s[k].type = "ok" /\ s[k].link \in {"next", "unparsed"}
              /\ s[n].type = "ok" => s[n].link \in {"none", "self"} }
          : n \in 1..maxPages }

Offset(s, k) == SumSeq([j \in 1..(k - 1) |-> s[j].n])

\* the events of the log are numbered in the order the server holds them
Materialize(s) ==
  [k \in DOMAIN s |->
     [type |-> s[k].type,
      data |-> Ids(Offset(s, k) + 1, Offset(s, k) + s[k].n),
      link |-> s[k].link,
      after |-> k,
      error |-> s[k].error]]

Servers ==
  { Materialize(s) : s \in Skeletons(MaxPages, MaxPageSize, LinkKinds, AxiosErrors) }

\* A log that is polled: every response is a 2xx page with a rel="next" link;
\* past the events it holds, the server answers with an empty page whose link
\* names the cursor that was asked, so that the same page is served again.
EndlessServers ==
  { [k \in DOMAIN srv |->
       IF k = Len(srv) THEN [srv[k] EXCEPT !.after = k - 1] ELSE srv[k]] :
      srv \in { Materialize(s) :
                  s \in { t \in UNION { [1..n -> Shapes(MaxPageSize, {"next"}, {})] :
                                         n \in 1..MaxPages } :
                            /\ \A k \in DOMAIN t : t[k].type = "ok"
                            /\ t[Len(t)].n = 0 } } }

\* the servers a rule of a whole run may meet: one or two responses, pages of
\* no or one event
RunServers ==
  { Materialize(s) :
      s \in { t \in Skeletons(2, 1, {"none", "next"}, RunAxiosErrors) :
                \A k \in DOMAIN t : t[k].type /= "okNotArray" } }

\* the servers met when the whole program runs: one response each
MainServers == { s \in RunServers : Len(s) = 1 }

NoServer == <<>>

RECURSIVE Concat(_)
Concat(pages) == IF pages = <<>> THEN <<>> ELSE pages[1].data \o Concat(Tail(pages))

VARIABLES
  client,     \* the frame of OktaClient.querySystemLog
  server,     \* the log server the current call talks to
  runner,     \* the frame of DetectionRunner.runAllDetections
  loader,     \* the frame of DetectionLoader.loadDetections
  disk,       \* the cache file detections/detections.json and the file system
  main,       \* the frame of SecurityHealthCheck.run
  filterFrame, \* the frame of DetectionLoader.filterExecutableDetections
  findFrame,  \* the frame of the detections.find of runSpecificDetection
  pdfFrame    \* the frame of PDFGenerator.addExecutiveSummary

vars ==
  <<client, server, runner, loader, disk, main, filterFrame, findFrame, pdfFrame>>

\* the whole program is running, not one component on its own
InProgram == main.pc /= "idle"

\* ------------------------------------------------------------- OktaClient
LogsUrl == [base |-> "", path |-> "/logs", after |-> 0]

\* const params = {filter, limit, sortOrder}; if (since) params.since = since
Params(filter, since, limit) ==
  [filter |-> filter, limit |-> limit, sortOrder |-> "DESCENDING",
   since |-> IF Truthy(since) THEN since ELSE Undefined]

NoParams == [filter |-> Undefined, limit |-> 0, sortOrder |-> Undefined, since |-> Undefined]

ClientIdle ==
  [pc |-> "idle", filter |-> Undefined, since |-> Undefined,
   params |-> NoParams, limit |-> 0, results |-> <<>>,
   url |-> LogsUrl, hasMore |-> FALSE, requests |-> <<>>, sleeps |-> 0,
   ret |-> <<>>, thrown |-> NoError]

\* entry of querySystemLog(filter, since, limit) up to the while loop
ClientCall(filter, since, limit) ==
  [ClientIdle EXCEPT !.pc = "while", !.filter = filter, !.since = since,
                     !.params = Params(filter, since, limit),
                     !.limit = limit, !.hasMore = TRUE]

\* the URL inside `<...>; rel="next"`, as the server writes it
NextLink(resp) == [base |-> BaseUrl, path |-> "/logs", after |-> resp.after]

\* linkHeader && linkHeader.includes('rel="next"')
IncludesNext(link) == link \in {"next", "unparsed"}

\* linkHeader.match(/<([^>]+)>;\s*rel="next"/)
NextMatch(link) == link = "next"

\* nextMatch[1].replace(this.baseUrl, '')
ReplaceBase(u) == IF u.base = BaseUrl THEN [u EXCEPT !.base = ""] ELSE u

\* the loop condition without its limit test
WhileCondNoLimit(c) == c.hasMore

\* the loop condition without its hasMore test
WhileCondNoLink(c) == Len(c.results) < c.limit

\* while (hasMore && results.length < limit)
WhileCond(c) == c.hasMore /\ Len(c.results) < c.limit

\* the return without its truncation
SliceNone(results, limit) == results

\* results.slice(0, limit), for limit >= 0
Slice(results, limit) == SubSeq(results, 1, Min(limit, Len(results)))

\* the catch block of querySystemLog
NormalizeError(error) ==
  IF error.hasResponse
  THEN IF error.dataShape \in {"null", Undefined}
       THEN TypeError("null (reading 'errorSummary')")
       ELSE MkError(<<"Okta API Error: ", error.status, " - ",
                      IF Truthy(error.errorSummary) THEN error.errorSummary
                                                    ELSE error.statusText>>)
  ELSE IF error.hasRequest
       THEN MkError(<<"Network error: Unable to reach Okta API">>)
       ELSE error

\* the page the server returns for a request
Serve(srv, url) == srv[url.after + 1]

\* a request that carries the parameter set whatever the URL
RequestWithParams(c) == [url |-> c.url, params |-> c.params]

\* one request record: the URL and the params option of client.get
Request(c) ==
  [url |-> c.url, params |-> IF c.url = LogsUrl THEN c.params ELSE NoParams]

\* what the try block raises for a response, NoError when it raises nothing:
\* the rejection of client.get, or the TypeError of results.push(...response.data)
Raised(resp) ==
  CASE resp.type = "fail" -> resp.error
    [] resp.type = "okNotArray" -> MkError(<<"TypeError: response.data is not iterable">>)
    [] OTHER -> NoError

\* a catch that returns the events paged in before the failure
ClientGetStepDelivers(c, srv) ==
  LET resp == Serve(srv, c.url)
      sent == [c EXCEPT !.requests = Append(@, Request(c))]
  IN IF Raised(resp) /= NoError
     THEN [sent EXCEPT !.pc = "returned", !.ret = Slice(c.results, c.limit)]
     ELSE [sent EXCEPT
             !.pc = "sleep",
             !.results = @ \o resp.data,
             !.url = IF IncludesNext(resp.link) /\ NextMatch(resp.link)
                     THEN ReplaceBase(NextLink(resp)) ELSE @,
             !.hasMore = IncludesNext(resp.link) /\ NextMatch(resp.link)]

\* one pass of the loop body up to the await of sleep(100), or the catch
ClientGetStep(c, srv) ==
  LET resp == Serve(srv, c.url)
      sent == [c EXCEPT !.requests = Append(@, Request(c))]
  IN IF Raised(resp) /= NoError
     THEN [sent EXCEPT !.pc = "thrown", !.thrown = NormalizeError(Raised(resp))]
     ELSE [sent EXCEPT
             !.pc = "sleep",
             !.results = @ \o resp.data,
             !.url = IF IncludesNext(resp.link) /\ NextMatch(resp.link)
                     THEN ReplaceBase(NextLink(resp)) ELSE @,
             !.hasMore = IncludesNext(resp.link) /\ NextMatch(resp.link)]

ClientGet ==
  /\ client.pc = "while"
  /\ WhileCond(client)
  /\ client' = ClientGetStep(client, server)
  /\ UNCHANGED <<server, runner, loader, disk, main, filterFrame, findFrame, pdfFrame>>

\* a loop body that ends without a delay
SleptNot(c) == [c EXCEPT !.pc = "while"]

\* await this.sleep(100)
Slept(c) == [c EXCEPT !.pc = "while", !.sleeps = @ + 1]

\* await this.sleep(100) at the end of the loop body
ClientSleep ==
  /\ client.pc = "sleep"
  /\ client' = Slept(client)
  /\ UNCHANGED <<server, runner, loader, disk, main, filterFrame, findFrame, pdfFrame>>

\* the loop ends: return results.slice(0, limit)
ClientReturn ==
  /\ client.pc = "while"
  /\ ~WhileCond(client)
  /\ client' = [client EXCEPT !.pc = "returned", !.ret = Slice(client.results, client.limit)]
  /\ UNCHANGED <<server, runner, loader, disk, main, filterFrame, findFrame, pdfFrame>>

ClientNext == ClientGet \/ ClientSleep \/ ClientReturn

\* the frame without the record of the requests made and the delays awaited
Forget(c) == [c EXCEPT !.requests = <<>>, !.sleeps = 0]

\* the steps of querySystemLog on the frame alone
LiveGet ==
  /\ client.pc = "while"
  /\ WhileCond(client)
  /\ client' = Forget(ClientGetStep(client, server))
  /\ UNCHANGED <<server, runner, loader, disk, main, filterFrame, findFrame, pdfFrame>>

LiveSleep ==
  /\ client.pc = "sleep"
  /\ client' = Forget(Slept(client))
  /\ UNCHANGED <<server, runner, loader, disk, main, filterFrame, findFrame, pdfFrame>>

LiveReturn ==
  /\ client.pc = "while"
  /\ ~WhileCond(client)
  /\ client' = [client EXCEPT !.pc = "returned", !.ret = Slice(client.results, client.limit)]
  /\ UNCHANGED <<server, runner, loader, disk, main, filterFrame, findFrame, pdfFrame>>

ClientLiveNext == LiveGet \/ LiveSleep \/ LiveReturn

\* ------------------------------------------------------- DetectionRunner
DefaultLimit == 100

LogServers == IF InProgram THEN MainServers ELSE RunServers

\* A rule descriptor as the runner reads it. description is absent, a string,
\* or a truthy value that is no string ("nonString": a YAML list or number);
\* false_positives is absent, a string, a list of strings ("list"), or a list
\* holding an entry that is no string ("listNonString").
Descriptor(title, queryType, query, description, false_positives) ==
  [title |-> title, queryType |-> queryType, query |-> query,
   description |-> description, false_positives |-> false_positives,
   filename |-> title, sourceType |-> "detection", date |-> Undefined]

DescriptorShapes ==
  { <<"OIE", "eventType eq x", "text", "list">>,
    <<"OIE", "", "text", Undefined>>,
    <<"Splunk", Undefined, "text", "string">>,
    <<"OIE", "eventType eq x", "nonString", Undefined>>,
    <<"OIE", "eventType eq x", Undefined, "listNonString">> }

\* the rule lists of a run: the k-th descriptor is titled k
RuleLists ==
  UNION { { [k \in 1..n |-> Descriptor(k, f[k][1], f[k][2], f[k][3], f[k][4])] :
              f \in [1..n -> DescriptorShapes] }
          : n \in 0..MaxRules }

\* s.filter(p) of JavaScript: the elements that satisfy p, in order
RECURSIVE SelectOIE(_)
SelectOIE(s) ==
  IF s = <<>> THEN <<>>
  ELSE IF s[1].queryType = "OIE" THEN <<s[1]>> \o SelectOIE(Tail(s))
       ELSE SelectOIE(Tail(s))

\* const executable = detections.filter(d => d.queryType === 'OIE')
FilterExecutable(detections) == SelectOIE(detections)

NewResults(total) ==
  [total |-> total, success |-> 0, failed |-> 0, withFindings |-> 0,
   totalFindings |-> 0, detectionResults |-> <<>>]

RunnerIdle ==
  [pc |-> "idle", detections |-> <<>>, config |-> [since |-> Undefined, limit |-> 0],
   executable |-> <<>>, i |-> 0, results |-> NewResults(0),
   started |-> <<>>, queried |-> <<>>, outcomes |-> <<>>, sleeps |-> 0,
   reports |-> 0, thrown |-> NoError,
   findings |-> NewResults(0), pdf |-> "none", ret |-> NewResults(0)]

\* runAllDetections(detections) up to the for loop. config.query.limit is 0
\* when the configuration gives none.
RunnerCall(detections, config) ==
  [RunnerIdle EXCEPT !.pc = "for", !.detections = detections, !.config = config,
                     !.executable = FilterExecutable(detections),
                     !.results = NewResults(Len(FilterExecutable(detections)))]

\* config.query.limit: none (0), or 1
ConfigLimits == {0, 1}

\* this.config.query?.limit || 100
QueryLimit(config) == IF config.limit = 0 THEN DefaultLimit ELSE config.limit

\* detection.description.trim() of a truthy value that has no trim method
DescriptionThrows(detection) == detection.description = "nonString"

\* fps.forEach(fp => fp.trim()) meets an entry that has no trim method
FalsePositivesThrow(detection) == detection.false_positives = "listNonString"

\* a result that keeps only the first event of the query
DetectionResultFirst(detection, events) ==
  [title |-> detection.title, description |-> detection.description,
   false_positives |-> detection.false_positives,
   events |-> IF events = <<>> THEN <<>> ELSE <<events[1]>>,
   hasError |-> FALSE, error |-> <<>>]

\* the object runDetectionWithEvents returns
DetectionResult(detection, events) ==
  [title |-> detection.title, description |-> detection.description,
   false_positives |-> detection.false_positives,
   events |-> events, hasError |-> FALSE, error |-> <<>>]

\* the try branch adding one to totalFindings for each rule with findings
SucceededCountsRules(r, detectionResult) ==
  [r EXCEPT
     !.pc = "sleep",
     !.results.success = @ + 1,
     !.results.detectionResults = Append(@, detectionResult),
     !.results.withFindings =
        IF Len(detectionResult.events) > 0 THEN @ + 1 ELSE @,
     !.results.totalFindings =
        IF Len(detectionResult.events) > 0 THEN @ + 1 ELSE @]

\* the try branch putting the result in front of the earlier ones
SucceededPrepends(r, detectionResult) ==
  [r EXCEPT
     !.pc = "sleep",
     !.results.success = @ + 1,
     !.results.detectionResults = <<detectionResult>> \o @,
     !.results.withFindings =
        IF Len(detectionResult.events) > 0 THEN @ + 1 ELSE @,
     !.results.totalFindings =
        IF Len(detectionResult.events) > 0 THEN @ + Len(detectionResult.events) ELSE @]

\* the try branch after runDetectionWithEvents has returned
Succeeded(r, detectionResult) ==
  [r EXCEPT
     !.pc = "sleep",
     !.results.success = @ + 1,
     !.results.detectionResults = Append(@, detectionResult),
     !.results.withFindings =
        IF Len(detectionResult.events) > 0 THEN @ + 1 ELSE @,
     !.results.totalFindings =
        IF Len(detectionResult.events) > 0 THEN @ + Len(detectionResult.events) ELSE @]

\* a loop body without its catch: the error leaves runAllDetections
CaughtRethrows(r, detection, error) ==
  [r EXCEPT !.pc = "thrown", !.thrown = error]

\* the catch branch without failed++
CaughtNoCount(r, detection, error) ==
  [r EXCEPT
     !.pc = "sleep",
     !.results.detectionResults =
        Append(@, [title |-> detection.title, description |-> detection.description,
                   false_positives |-> detection.false_positives,
                   events |-> <<>>, hasError |-> TRUE, error |-> error.message])]

\* the catch branch recording the events paged in before the failure
CaughtKeepsEvents(r, detection, error) ==
  [r EXCEPT
     !.pc = "sleep",
     !.results.failed = @ + 1,
     !.results.detectionResults =
        Append(@, [title |-> detection.title, description |-> detection.description,
                   false_positives |-> detection.false_positives,
                   events |-> client.results, hasError |-> TRUE, error |-> error.message])]

\* the catch branch taking the same rule again
CaughtRetries(r, detection, error) ==
  [r EXCEPT
     !.pc = "for",
     !.results.failed = @ + 1,
     !.results.detectionResults =
        Append(@, [title |-> detection.title, description |-> detection.description,
                   false_positives |-> detection.false_positives,
                   events |-> <<>>, hasError |-> TRUE, error |-> error.message])]

\* the catch branch going straight on to the next rule
CaughtSkipsDelay(r, detection, error) ==
  [r EXCEPT
     !.pc = "for", !.i = @ + 1,
     !.results.failed = @ + 1,
     !.results.detectionResults =
        Append(@, [title |-> detection.title, description |-> detection.description,
                   false_positives |-> detection.false_positives,
                   events |-> <<>>, hasError |-> TRUE, error |-> error.message])]

\* the catch branch of the loop body
Caught(r, detection, error) ==
  [r EXCEPT
     !.pc = "sleep",
     !.results.failed = @ + 1,
     !.results.detectionResults =
        Append(@, [title |-> detection.title, description |-> detection.description,
                   false_positives |-> detection.false_positives,
                   events |-> <<>>, hasError |-> TRUE, error |-> error.message])]

\* what one rule did, kept for the properties: whether its querySystemLog call
\* raised and what it returned, and what runDetectionWithEvents raised;
\* refused is whether the last request of the call failed
Outcome(detection, queryRaised, ret, raised) ==
  [title |-> detection.title, queryRaised |-> queryRaised, ret |-> ret, raised |-> raised,
   refused |-> FALSE]

\* the last request the call made was answered by a failure
LastRefused(c, srv) ==
  Len(c.requests) >= 1 /\ Raised(srv[Len(c.requests)]) /= NoError

Current(r) == r.executable[r.i + 1]

\* the head of the loop body: runDetectionWithEvents up to the await of
\* querySystemLog, or its description step raising into the catch
RunnerStartRule ==
  /\ runner.pc = "for"
  /\ runner.i < Len(runner.executable)
  /\ LET detection == Current(runner)
         r == [runner EXCEPT !.started = Append(@, detection.title)]
     IN IF DescriptionThrows(detection)
        THEN LET e == TypeError("detection.description.trim is not a function") IN
             /\ runner' = Caught([r EXCEPT !.outcomes = Append(@, Outcome(detection, NoError, <<>>, e))],
                                 detection, e)
             /\ UNCHANGED <<client, server, loader, disk, main, filterFrame, findFrame, pdfFrame>>
        ELSE /\ runner' = [r EXCEPT !.pc = "query", !.queried = Append(@, detection.title)]
             /\ client' = ClientCall(detection.query, runner.config.since, QueryLimit(runner.config))
             /\ server' \in LogServers
             /\ UNCHANGED <<loader, disk, main, filterFrame, findFrame, pdfFrame>>

\* querySystemLog has settled: the rest of runDetectionWithEvents and the
\* try or catch branch of the loop body
RunnerQueryDone ==
  /\ runner.pc = "query"
  /\ client.pc \in {"returned", "thrown"}
  /\ LET detection == Current(runner)
         raised == IF client.pc = "thrown" THEN client.thrown
                   ELSE IF FalsePositivesThrow(detection)
                        THEN TypeError("fp.trim is not a function")
                        ELSE NoError
         r == [runner EXCEPT
                 !.outcomes = Append(@,
                    [Outcome(detection,
                             IF client.pc = "thrown" THEN client.thrown ELSE NoError,
                             client.ret, raised)
                       EXCEPT !.refused = LastRefused(client, server)])]
     IN runner' = IF raised /= NoError
                  THEN Caught(r, detection, raised)
                  ELSE Succeeded(r, DetectionResult(detection, client.ret))
  /\ client' = ClientIdle
  /\ server' = NoServer
  /\ UNCHANGED <<loader, disk, main, filterFrame, findFrame, pdfFrame>>

\* await this.sleep(200), then i++
RunnerSleep ==
  /\ runner.pc = "sleep"
  /\ runner' = [runner EXCEPT !.pc = "for", !.i = @ + 1, !.sleeps = @ + 1]
  /\ UNCHANGED <<client, server, loader, disk, main, filterFrame, findFrame, pdfFrame>>

\* a report step without its catch: a rejection of generateReport leaves
\* runAllDetections
ReportedRethrows(r, pdf) ==
  IF pdf = "failed"
  THEN [r EXCEPT !.pc = "thrown", !.reports = @ + 1, !.findings = r.results,
                 !.pdf = pdf, !.thrown = MkError(<<"EACCES: permission denied, open">>)]
  ELSE [r EXCEPT !.pc = "done", !.reports = @ + 1, !.findings = r.results,
                 !.pdf = pdf, !.ret = r.results]

\* generateReport(results, this.config) has resolved ("written") or rejected
\* ("failed", caught and logged); return results. findings is the summary
\* generateReport was given, ret the one returned
Reported(r, pdf) ==
  [r EXCEPT !.pc = "done", !.reports = @ + 1, !.findings = r.results,
            !.pdf = pdf, !.ret = r.results]

\* after the loop: generateReport resolves or rejects, the rejection is
\* caught, and the summary is returned
RunnerReport ==
  /\ runner.pc = "for"
  /\ runner.i >= Len(runner.executable)
  /\ \E pdf \in {"written", "failed"} : runner' = Reported(runner, pdf)
  /\ UNCHANGED <<client, server, loader, disk, main, filterFrame, findFrame, pdfFrame>>

RunnerNext ==
  \/ RunnerStartRule
  \/ RunnerQueryDone
  \/ RunnerSleep
  \/ RunnerReport
  \/ ClientNext

\* ------------------------------------------------------- DetectionLoader
\* this.sources
Sources ==
  << [name |-> "detections", type |-> "detection"],
     [name |-> "hunts", type |-> "hunt"] >>

\* What the raw-content endpoint holds for a listed .yml file: a rule with an
\* OIE query ("oie"), a rule whose OIE query is white space ("oieBlank"), a
\* rule without an OIE query ("noOie"), a download that fails or a body that
\* yaml.load rejects ("loadFail"), an empty body, for which yaml.load returns
\* undefined ("emptyDoc"), a rule with an OIE query and a date field written
\* as a YAML timestamp ("oieDated").
FileKinds == {"oie", "oieBlank", "noOie", "loadFail", "emptyDoc", "oieDated"}

\* a YAML timestamp as yaml.load returns it, a Date object, and the string
\* JSON.stringify writes for it
DateObject == "Date(2024-01-01T00:00:00.000Z)"
IsoString == "2024-01-01T00:00:00.000Z"

\* the date field of the document yaml.load returns
RawDate(kind) == IF kind = "oieDated" THEN DateObject ELSE Undefined

\* the try block of the file loop raises: axios.get rejects, yaml.load throws,
\* or detection.filename = file.name is an assignment to undefined
FileRaises(kind) == kind \in {"loadFail", "emptyDoc"}

\* detection.detection.okta_systemlog.OIE as the file holds it
RawQuery(kind) ==
  CASE kind \in {"oie", "oieDated"} -> "  eventType eq x\n"
    [] kind = "oieBlank" -> "   "
    [] OTHER -> Undefined

\* String.prototype.trim on the query texts of the model
Trim(str) ==
  CASE str = "  eventType eq x\n" -> "eventType eq x"
    [] str = "   " -> ""
    [] OTHER -> str

\* the listings of one collection: each entry is a .yml file or another file
Listings == UNION { [1..n -> {"yml", "other"}] : n \in 0..MaxFiles }

\* the listings met when the whole program runs
MainListings == { l \in Listings : Len(l) <= 1 }

\* response.data.filter(file => file.name.endsWith('.yml')): the .yml files
\* of the listing in its order, the k-th of collection src numbered 10 * src + k
YmlFiles(src, listing) ==
  LET RECURSIVE Sel(_, _)
      Sel(k, found) ==
        IF k > Len(listing) THEN <<>>
        ELSE IF listing[k] = "yml"
             THEN <<10 * src + found + 1>> \o Sel(k + 1, found + 1)
             ELSE Sel(k + 1, found)
  IN Sel(1, 0)

\* the cache file: absent, unparseable, or the JSON text of a descriptor list
NoCache == [state |-> "absent", content |-> <<>>]
CorruptCache == [state |-> "corrupt", content |-> <<>>]

\* what JSON.stringify followed by JSON.parse makes of a value: a Date comes
\* back as its ISO string, a string, a number, a list or a missing field as
\* it was
JsonValue(v) == IF v = DateObject THEN IsoString ELSE v

\* JSON.stringify(allDetections, null, 2) written to the cache file; of the
\* fields of a descriptor only date can hold a value JSON does not carry
JsonStringify(detections) ==
  [state |-> "json",
   content |-> [k \in DOMAIN detections |->
                  [detections[k] EXCEPT !.date = JsonValue(@)]]]

\* fs.readFile + JSON.parse raise unless the file holds JSON
CacheReadable(cache) == cache.state = "json"

\* JSON.parse(cached)
JsonParse(cache) == cache.content

CachedLists ==
  { <<Descriptor(91, "OIE", "eventType eq x", "text", "list")>>,
    <<Descriptor(91, "OIE", "eventType eq x", "text", "list"),
      Descriptor(92, "Splunk", Undefined, "text", Undefined)>> }

Caches == {NoCache, CorruptCache} \cup {JsonStringify(l) : l \in CachedLists}

LoaderIdle ==
  [pc |-> "idle", forceRefresh |-> TRUE, allDetections |-> <<>>,
   src |-> 1, files |-> <<>>, f |-> 1,
   loadedCount |-> 0, skippedCount |-> 0,
   totalLoadedCount |-> 0, totalSkippedCount |-> 0,
   error |-> NoError, ret |-> <<>>, thrown |-> NoError,
   requests |-> <<>>, fetched |-> <<>>, listed |-> <<>>,
   cacheReads |-> <<>>, writes |-> 0, sleeps |-> 0,
   calls |-> 1, ret0 |-> <<>>, before |-> NoCache]

\* loadDetections(forceRefresh) at its first await, fs.mkdir
LoaderCall(forceRefresh) ==
  [LoaderIdle EXCEPT !.pc = "mkdir", !.forceRefresh = forceRefresh]

\* the cache-first read made whatever forceRefresh says
CacheFirstAlways(l) == TRUE

\* no cache-first read at all
CacheFirstNever(l) == FALSE

\* if (!forceRefresh)
CacheFirst(l) == ~l.forceRefresh

\* the descriptor with the query text as the file holds it
LoadedUntrimmed(file, kind, source) ==
  [title |-> file, queryType |-> "OIE", query |-> RawQuery(kind),
   description |-> "text", false_positives |-> "list",
   filename |-> file, sourceType |-> source.type, date |-> RawDate(kind)]

\* the descriptor a parsed rule file becomes
Loaded(file, kind, source) ==
  [title |-> file, queryType |-> "OIE", query |-> Trim(RawQuery(kind)),
   description |-> "text", false_positives |-> "list",
   filename |-> file, sourceType |-> source.type, date |-> RawDate(kind)]

\* detection.detection && ...okta_systemlog && ...OIE
HasOIE(kind) == Truthy(RawQuery(kind))

\* a listing failure that leaves the source loop for the outer catch
ListingFailedAborts(l) ==
  [l EXCEPT !.pc = "fallback", !.error = NetworkError,
            !.listed = Append(@, [ok |-> FALSE, files |-> <<>>])]

\* the per-source catch: a warning, then the next source
ListingFailed(l) ==
  [l EXCEPT !.src = @ + 1, !.listed = Append(@, [ok |-> FALSE, files |-> <<>>])]

\* a file failure that ends the file loop of its collection
FileFailedBreaks(l) == [l EXCEPT !.f = Len(l.files) + 1]

\* the per-file catch: a warning, then the next file
FileFailed(l) == [l EXCEPT !.f = @ + 1]

\* a fallback error that names the cache alone
FallbackErrorBare(error) ==
  MkError(<<"Failed to load detections and hunts from GitHub and no cache available: ">>)

\* new Error(`Failed to load detections and hunts from GitHub and no cache
\* available: ${error.message}`)
FallbackError(error) ==
  MkError(<<"Failed to load detections and hunts from GitHub and no cache available: ">>
          \o error.message)

\* await fs.mkdir(this.cacheDir, {recursive: true}); a failure goes to the
\* outer catch
LoaderMkdir ==
  /\ loader.pc = "mkdir"
  /\ loader' =
       IF disk.mkdirFails
       THEN [loader EXCEPT !.pc = "fallback",
                           !.error = MkError(<<"EACCES: permission denied, mkdir">>)]
       ELSE IF CacheFirst(loader) THEN [loader EXCEPT !.pc = "cacheRead"]
            ELSE [loader EXCEPT !.pc = "source"]
  /\ UNCHANGED <<client, server, runner, disk, main, filterFrame, findFrame, pdfFrame>>

\* the cache-first read: return the cached list, or go on to GitHub
LoaderCacheRead ==
  /\ loader.pc = "cacheRead"
  /\ loader' =
       IF CacheReadable(disk.cache)
       THEN [loader EXCEPT !.pc = "returned", !.ret = JsonParse(disk.cache),
                           !.cacheReads = Append(@, <<"first", TRUE>>)]
       ELSE [loader EXCEPT !.pc = "source",
                           !.cacheReads = Append(@, <<"first", FALSE>>)]
  /\ UNCHANGED <<client, server, runner, disk, main, filterFrame, findFrame, pdfFrame>>

\* axios.get(source.githubBaseUrl): the listing, or the per-source catch
LoaderList ==
  /\ loader.pc = "source"
  /\ loader.src <= Len(Sources)
  /\ LET asked == [loader EXCEPT
                     !.requests = Append(@, [kind |-> "listing", source |-> loader.src, file |-> 0])]
     IN \/ loader' = ListingFailed(asked)
        \/ \E listing \in (IF InProgram THEN MainListings ELSE Listings) :
             loader' = [asked EXCEPT
                          !.pc = "file",
                          !.files = YmlFiles(loader.src, listing),
                          !.f = 1, !.loadedCount = 0, !.skippedCount = 0,
                          !.listed = Append(@, [ok |-> TRUE,
                                                files |-> YmlFiles(loader.src, listing)])]
  /\ UNCHANGED <<client, server, runner, disk, main, filterFrame, findFrame, pdfFrame>>

\* one pass of the file loop: download, yaml.load, the OIE test, up to the
\* await of sleep(100); a failed download or parse goes to the per-file catch
LoaderFile ==
  /\ loader.pc = "file"
  /\ loader.f <= Len(loader.files)
  /\ \E kind \in FileKinds :
       LET file == loader.files[loader.f]
           asked == [loader EXCEPT
                       !.requests = Append(@, [kind |-> "raw", source |-> loader.src, file |-> file]),
                       !.fetched = Append(@, [source |-> loader.src, file |-> file,
                                              kind |-> kind, slept |-> FALSE])]
       IN loader' =
            IF FileRaises(kind)
            THEN FileFailed(asked)
            ELSE IF HasOIE(kind)
                 THEN [asked EXCEPT
                         !.pc = "fileSleep",
                         !.allDetections = Append(@, Loaded(file, kind, Sources[loader.src])),
                         !.loadedCount = @ + 1]
                 ELSE [asked EXCEPT !.pc = "fileSleep", !.skippedCount = @ + 1]
  /\ UNCHANGED <<client, server, runner, disk, main, filterFrame, findFrame, pdfFrame>>

\* await this.sleep(100) at the end of the try block of the file loop
LoaderFileSleep ==
  /\ loader.pc = "fileSleep"
  /\ loader' = [loader EXCEPT !.pc = "file", !.f = @ + 1, !.sleeps = @ + 1,
                              !.fetched[Len(loader.fetched)].slept = TRUE]
  /\ UNCHANGED <<client, server, runner, disk, main, filterFrame, findFrame, pdfFrame>>

\* the file loop is over: add the counts, next source
LoaderSourceDone ==
  /\ loader.pc = "file"
  /\ loader.f > Len(loader.files)
  /\ loader' = [loader EXCEPT
                  !.pc = "source", !.src = @ + 1,
                  !.totalLoadedCount = @ + loader.loadedCount,
                  !.totalSkippedCount = @ + loader.skippedCount]
  /\ UNCHANGED <<client, server, runner, disk, main, filterFrame, findFrame, pdfFrame>>

\* a write that adds the new descriptors to those the file holds
WriteFileMerged(cache, detections) ==
  IF CacheReadable(cache) THEN JsonStringify(JsonParse(cache) \o detections)
  ELSE JsonStringify(detections)

\* fs.writeFile(cacheFile, JSON.stringify(allDetections, null, 2)): the file
\* is replaced
WriteFile(cache, detections) == JsonStringify(detections)

\* after the source loop: fs.writeFile(cacheFile, JSON.stringify(allDetections))
\* and return allDetections; a failed write goes to the outer catch
LoaderWrite ==
  /\ loader.pc = "source"
  /\ loader.src > Len(Sources)
  /\ IF disk.writeFails
     THEN /\ loader' = [loader EXCEPT !.pc = "fallback",
                                      !.error = MkError(<<"ENOSPC: no space left on device, write">>)]
          /\ UNCHANGED disk
     ELSE /\ loader' = [loader EXCEPT !.pc = "returned", !.ret = loader.allDetections,
                                      !.writes = @ + 1]
          /\ disk' = [disk EXCEPT !.cache = WriteFile(disk.cache, loader.allDetections)]
  /\ UNCHANGED <<client, server, runner, main, filterFrame, findFrame, pdfFrame>>

\* the outer catch: read the cache as a fallback, or throw
LoaderFallback ==
  /\ loader.pc = "fallback"
  /\ loader' =
       IF CacheReadable(disk.cache)
       THEN [loader EXCEPT !.pc = "returned", !.ret = JsonParse(disk.cache),
                           !.cacheReads = Append(@, <<"fallback", TRUE>>)]
       ELSE [loader EXCEPT
               !.pc = "thrown",
               !.cacheReads = Append(@, <<"fallback", FALSE>>),
               !.thrown = FallbackError(loader.error)]
  /\ UNCHANGED <<client, server, runner, disk, main, filterFrame, findFrame, pdfFrame>>

\* the caller loads again from the cache right after a load that fetched
\* from the remote and wrote the cache: loadDetections(false); ret0 is what
\* the first load returned and before what the cache held when it began
LoaderAgain ==
  /\ loader.pc = "returned"
  /\ loader.calls = 1
  /\ loader.writes = 1
  /\ loader' = [LoaderCall(FALSE) EXCEPT !.calls = 2, !.ret0 = loader.ret,
                                         !.before = disk.cache0]
  /\ disk' = [disk EXCEPT !.cache0 = disk.cache]
  /\ UNCHANGED <<client, server, runner, main, filterFrame, findFrame, pdfFrame>>

LoaderNext ==
  \/ LoaderMkdir
  \/ LoaderCacheRead
  \/ LoaderList
  \/ LoaderFile
  \/ LoaderFileSleep
  \/ LoaderSourceDone
  \/ LoaderWrite
  \/ LoaderFallback

\* two loads in a row for the loader on its own
LoaderTwiceNext == LoaderNext \/ LoaderAgain

\* filterExecutableDetections(detections): the runnable subset of a loaded set
RECURSIVE SelectExecutable(_)
SelectExecutable(s) ==
  IF s = <<>> THEN <<>>
  ELSE IF s[1].queryType = "OIE" /\ Truthy(s[1].query)
       THEN <<s[1]>> \o SelectExecutable(Tail(s))
       ELSE SelectExecutable(Tail(s))

\* a filter on the dialect tag alone
FilterTagOnly(detections) == SelectOIE(detections)

\* detections.filter(d => d.queryType === 'OIE' && d.query)
FilterExecutableDetections(detections) == SelectExecutable(detections)

FilterIdle == [pc |-> "idle", detections |-> <<>>, ret |-> <<>>, calls |-> 0, arg0 |-> <<>>]

\* a call of filterExecutableDetections; arg0 keeps the argument as it was
\* when the call was made
FilterCall(f, detections) ==
  [f EXCEPT !.pc = "called", !.detections = detections, !.arg0 = detections]

\* the call returns the filtered array; filter() builds a new array and leaves
\* its receiver alone
FilterReturn ==
  /\ filterFrame.pc = "called"
  /\ filterFrame' = [filterFrame EXCEPT
                       !.pc = "returned",
                       !.ret = FilterExecutableDetections(filterFrame.detections),
                       !.calls = @ + 1]
  /\ UNCHANGED <<client, server, runner, loader, disk, main, findFrame, pdfFrame>>

\* the caller hands the returned array to the filter once more
FilterAgain ==
  /\ filterFrame.pc = "returned"
  /\ filterFrame.calls < 2
  /\ filterFrame' = FilterCall(filterFrame, filterFrame.ret)
  /\ UNCHANGED <<client, server, runner, loader, disk, main, findFrame, pdfFrame>>

FilterNext == FilterReturn \/ FilterAgain

\* ----------------------------------------------------------- PDFGenerator
\* The entries of findings.detectionResults as the report reads them: a rule
\* that failed, or a rule with no, one or two events.
ResultEntries ==
  { [events |-> <<>>, hasError |-> TRUE] }
  \cup { [events |-> Ids(1, n), hasError |-> FALSE] : n \in 0..2 }

ResultLists == UNION { [1..n -> ResultEntries] : n \in 0..MaxResults }

\* findings.detectionResults.filter(d => d.events.length > 0).length
DetectionsWithFindings(detectionResults) ==
  Len(SelectSeq(detectionResults, LAMBDA d : Len(d.events) > 0))

\* findings.detectionResults.reduce((sum, d) => sum + d.events.length, 0)
TotalEvents(detectionResults) ==
  SumSeq([k \in DOMAIN detectionResults |-> Len(detectionResults[k].events)])

\* a risk level that grows with every entry of the summary
RiskLevelOfAll(detectionResults) ==
  IF Len(detectionResults) = 0 THEN "LOW"
  ELSE IF Len(detectionResults) <= 3 THEN "MODERATE"
       ELSE "HIGH"

\* if (detectionsWithFindings === 0) ... else if (detectionsWithFindings <= 3)
RiskLevel(detectionResults) ==
  IF DetectionsWithFindings(detectionResults) = 0 THEN "LOW"
  ELSE IF DetectionsWithFindings(detectionResults) <= 3 THEN "MODERATE"
       ELSE "HIGH"

PdfIdle ==
  [pc |-> "idle", detectionResults |-> <<>>, totalDetections |-> 0,
   detectionsWithFindings |-> 0, totalEvents |-> 0, riskLevel |-> "none"]

\* addExecutiveSummary(doc, findings) at its first statement
PdfCall(detectionResults) ==
  [PdfIdle EXCEPT !.pc = "called", !.detectionResults = detectionResults]

\* addExecutiveSummary: the statistics and the risk level it writes
AddExecutiveSummary ==
  /\ pdfFrame.pc = "called"
  /\ pdfFrame' = [pdfFrame EXCEPT
                    !.pc = "written",
                    !.totalDetections = Len(pdfFrame.detectionResults),
                    !.detectionsWithFindings =
                       DetectionsWithFindings(pdfFrame.detectionResults),
                    !.totalEvents = TotalEvents(pdfFrame.detectionResults),
                    !.riskLevel = RiskLevel(pdfFrame.detectionResults)]
  /\ UNCHANGED <<client, server, runner, loader, disk, main, filterFrame, findFrame>>

PdfNext == AddExecutiveSummary


NoDisk == [cache |-> NoCache, cache0 |-> NoCache, mkdirFails |-> FALSE, writeFails |-> FALSE]

\* --------------------------------------------------- SecurityHealthCheck
\* parseArguments(): detection is 0 without --detection, else the name asked
\* for, written as the number of the rule whose title or file name holds it
Options(help, list, detection, since, offline) ==
  [help |-> help, list |-> list, detection |-> detection, since |-> since,
   offline |-> offline]

CommandLines ==
  {Options(TRUE, FALSE, 0, Undefined, FALSE)}
  \cup { Options(FALSE, list, detection, since, offline) :
           list \in BOOLEAN, detection \in {0, 11, 91, 55},
           since \in {Undefined, "2024-02-01T00:00:00Z"}, offline \in BOOLEAN }

\* config.json: missing, no JSON, JSON without okta.domain or okta.apiToken,
\* or a valid configuration
ConfigFiles == {"ENOENT", "badJson", "noToken", "ok"}

NoConfig == [loaded |-> FALSE, since |-> Undefined, limit |-> 0]

\* what runDetection hands back to runSpecificDetection: nothing yet, a
\* number, or a result object
JsUndefined == [type |-> "undefined", number |-> 0, object |-> <<>>]
JsNumber(n) == [type |-> "number", number |-> n, object |-> <<>>]
JsObject(o) == [type |-> "object", number |-> 0, object |-> <<o>>]

MainIdle ==
  [pc |-> "idle", options |-> Options(FALSE, FALSE, 0, Undefined, FALSE),
   configFile |-> "ok", config |-> NoConfig, tc |-> "none", tcCalls |-> 0,
   loads |-> 0, queries |-> 0, detections |-> <<>>, found |-> <<>>,
   ret |-> JsUndefined, exitCode |-> -1, thrown |-> NoError]

\* the catch of run(), and process.exit(1) of loadConfig and
\* runSpecificDetection
Exit1(m, error) == [m EXCEPT !.pc = "exited", !.exitCode = 1, !.thrown = error]

\* run() returns and the process ends
Exit0(m) == [m EXCEPT !.pc = "exited", !.exitCode = 0]

\* d.title.toLowerCase().includes(name) || d.filename.toLowerCase().includes(name)
Matches(d, name) == d.title = name \/ d.filename = name

\* detections.find(...): the first match, 0 when there is none
Find(detections, name) ==
  IF \E k \in DOMAIN detections : Matches(detections[k], name)
  THEN CHOOSE k \in DOMAIN detections :
         /\ Matches(detections[k], name)
         /\ \A j \in 1..(k - 1) : ~Matches(detections[j], name)
  ELSE 0

\* The find of runSpecificDetection on the text of titles, file names and the
\* name asked for. A text is a sequence of letters; a rule file without a
\* title key gives a descriptor whose title is undefined (NoTitle).
Str(chars) == [type |-> "string", chars |-> chars]
NoTitle == [type |-> "undefined", chars |-> <<>>]

TitleTexts == {Str(<<"A", "d">>), Str(<<"a">>), Str(<<"d", "a">>), NoTitle}
FilenameTexts == {Str(<<"a", "d">>), Str(<<"D">>)}
DetectionNames == {<<"a", "d">>, <<"A">>, <<"D", "A">>, <<"x">>}

\* the descriptor lists the find runs over
FindLists ==
  UNION { [1..n -> [title : TitleTexts, filename : FilenameTexts]] : n \in 0..MaxFound }

\* String.prototype.toLowerCase
ToLowerCase(chars) ==
  [k \in DOMAIN chars |->
     CASE chars[k] = "A" -> "a"
       [] chars[k] = "D" -> "d"
       [] OTHER -> chars[k]]

\* String.prototype.includes
Includes(chars, part) ==
  \E i \in 1..(Len(chars) - Len(part) + 1) :
    SubSeq(chars, i, i + Len(part) - 1) = part

\* d.title.toLowerCase() of a descriptor without a title
TitleThrows(d) == d.title.type /= "string"

\* the callback of find, for a descriptor with a title:
\* d.title.toLowerCase().includes(detectionName.toLowerCase()) ||
\* d.filename.toLowerCase().includes(detectionName.toLowerCase())
FindCallback(d, detectionName) ==
  \/ Includes(ToLowerCase(d.title.chars), ToLowerCase(detectionName))
  \/ Includes(ToLowerCase(d.filename.chars), ToLowerCase(detectionName))

FindIdle ==
  [pc |-> "idle", detections |-> <<>>, detectionName |-> <<>>, k |-> 1,
   ran |-> <<>>, exitCode |-> 0, thrown |-> NoError]

\* runSpecificDetection(detectionName) with the loaded list, at the find
FindCall(detections, detectionName) ==
  [FindIdle EXCEPT !.pc = "find", !.detections = detections,
                   !.detectionName = detectionName]

\* find calls its callback on the next descriptor: the callback raises, which
\* reaches the catch of run() and process.exit(1); or it returns true and
\* runDetection(detection, 1, 1) is called; or find goes on
FindTest ==
  /\ findFrame.pc = "find"
  /\ findFrame.k <= Len(findFrame.detections)
  /\ LET d == findFrame.detections[findFrame.k] IN
       findFrame' =
         IF TitleThrows(d)
         THEN [findFrame EXCEPT
                 !.pc = "exited", !.exitCode = 1,
                 !.thrown = TypeError("undefined (reading 'toLowerCase')")]
         ELSE IF FindCallback(d, findFrame.detectionName)
              THEN [findFrame EXCEPT !.pc = "running", !.ran = <<findFrame.k>>]
              ELSE [findFrame EXCEPT !.k = @ + 1]
  /\ UNCHANGED <<client, server, runner, loader, disk, main, filterFrame, pdfFrame>>

\* find returns undefined: if (!detection) process.exit(1)
FindNone ==
  /\ findFrame.pc = "find"
  /\ findFrame.k > Len(findFrame.detections)
  /\ findFrame' = [findFrame EXCEPT !.pc = "exited", !.exitCode = 1]
  /\ UNCHANGED <<client, server, runner, loader, disk, main, filterFrame, pdfFrame>>

FindNext == FindTest \/ FindNone

\* run() up to initialize(): --help prints the help and returns
MainStart ==
  /\ main.pc = "start"
  /\ main' = IF main.options.help THEN Exit0(main)
             ELSE [main EXCEPT !.pc = "loadConfig"]
  /\ UNCHANGED <<client, server, runner, loader, disk, filterFrame, findFrame, pdfFrame>>

\* loadConfig(): a missing file exits at once, any other error reaches the
\* catch of run()
MainLoadConfig ==
  /\ main.pc = "loadConfig"
  /\ main' =
       CASE main.configFile = "ENOENT" ->
              Exit1(main, MkError(<<"ENOENT: no such file or directory, open config.json">>))
         [] main.configFile = "badJson" ->
              Exit1(main, MkError(<<"SyntaxError: Unexpected token in JSON">>))
         [] main.configFile = "noToken" ->
              Exit1(main, MkError(<<"Missing required Okta configuration (domain and apiToken)">>))
         [] OTHER ->
              [main EXCEPT !.pc = "testConnection", !.config.loaded = TRUE]
  /\ UNCHANGED <<client, server, runner, loader, disk, filterFrame, findFrame, pdfFrame>>

\* loadDetections(!useCache) of a command that always refreshes
ForceRefreshAlways(options) == TRUE

\* loadDetections(!useCache), useCache being options.offline
ForceRefresh(options) == ~options.offline

\* a failed connection test that is logged and not rethrown
TestConnectionIgnored(m, error) ==
  [m EXCEPT !.pc = "loading", !.tc = "failed", !.tcCalls = @ + 1, !.loads = @ + 1]

\* testConnection() against a request that resolves
TestConnectionOk(m) ==
  [m EXCEPT !.pc = "loading", !.tc = "ok", !.tcCalls = @ + 1, !.loads = @ + 1,
            !.config.since = IF Truthy(m.options.since) THEN m.options.since ELSE @]

\* testConnection() against a request that rejects with error: the new error
\* reaches the catch of run()
TestConnectionFailed(m, error) ==
  Exit1([m EXCEPT !.tc = "failed", !.tcCalls = @ + 1],
        MkError(<<"Connection test failed: ">> \o error.message))

\* the rest of initialize(): testConnection(); then the --since override and
\* the call of loadDetections(!useCache) each of the three commands starts with
MainTestConnection ==
  /\ main.pc = "testConnection"
  /\ \/ /\ main' = TestConnectionOk(main)
        /\ loader' = LoaderCall(ForceRefresh(main.options))
     \/ /\ \E error \in RunAxiosErrors : main' = TestConnectionFailed(main, error)
        /\ loader' = IF main'.pc = "loading" THEN LoaderCall(ForceRefresh(main.options))
                      ELSE loader
  /\ UNCHANGED <<client, server, runner, disk, filterFrame, findFrame, pdfFrame>>

\* return result.events.length
RunDetectionReturn(result) == JsNumber(Len(result.events))

\* a single-rule path that records the error and ends normally
RunOneSwallowed(m, error) == Exit0(m)

\* runDetection has no try/catch: what runDetectionWithEvents raises goes
\* through runSpecificDetection to the catch of run()
RunOneRaised(m, error) == Exit1(m, error)

\* a whole run that exits 1 when a rule has failed
RunAllExitsOnFailure(m, summary) ==
  IF summary.failed > 0 THEN Exit1(m, NoError) ELSE Exit0(m)

\* runAllDetections has returned its summary; run() ends
RunAllReturned(m, summary) == Exit0(m)

\* loadDetections has settled: listDetections prints, runSpecificDetection
\* finds its rule and starts its query, runAllDetections starts the runner
MainLoaded ==
  /\ main.pc = "loading"
  /\ loader.pc \in {"returned", "thrown"}
  /\ loader' = LoaderIdle
  /\ LET got == [main EXCEPT !.detections = loader.ret] IN
     IF loader.pc = "thrown"
     THEN /\ main' = Exit1(main, loader.thrown)
          /\ UNCHANGED <<client, server, runner>>
     ELSE IF main.options.list
     THEN /\ main' = IF \E k \in DOMAIN loader.ret : DescriptionThrows(loader.ret[k])
                     THEN Exit1(got, TypeError("detection.description.trim is not a function"))
                     ELSE Exit0(got)
          /\ UNCHANGED <<client, server, runner>>
     ELSE IF main.options.detection /= 0
     THEN LET k == Find(loader.ret, main.options.detection) IN
          IF k = 0
          THEN /\ main' = Exit1(got, NoError)
               /\ UNCHANGED <<client, server, runner>>
          ELSE IF DescriptionThrows(loader.ret[k])
          THEN /\ main' = RunOneRaised([got EXCEPT !.found = <<loader.ret[k]>>],
                                       TypeError("detection.description.trim is not a function"))
               /\ UNCHANGED <<client, server, runner>>
          ELSE /\ main' = [got EXCEPT !.pc = "runOne", !.queries = @ + 1,
                                       !.found = <<loader.ret[k]>>]
               /\ UNCHANGED runner
               /\ client' = ClientCall(loader.ret[k].query, main.config.since,
                                       QueryLimit(main.config))
               /\ server' \in LogServers
     ELSE /\ main' = [got EXCEPT !.pc = "runAll"]
          /\ runner' = RunnerCall(loader.ret, [since |-> main.config.since,
                                               limit |-> main.config.limit])
          /\ UNCHANGED <<client, server>>
  /\ UNCHANGED <<disk, filterFrame, findFrame, pdfFrame>>

\* runDetectionWithEvents has its events or an error: runDetection returns
\* the number of events to runSpecificDetection, which drops it, or the error
\* reaches the catch of run()
MainRunOneDone ==
  /\ main.pc = "runOne"
  /\ client.pc \in {"returned", "thrown"}
  /\ main' = IF client.pc = "thrown" THEN RunOneRaised(main, client.thrown)
             ELSE IF FalsePositivesThrow(main.found[1])
                  THEN RunOneRaised(main, TypeError("fp.trim is not a function"))
                  ELSE Exit0([main EXCEPT !.ret =
                         RunDetectionReturn(DetectionResult(main.found[1], client.ret))])
  /\ UNCHANGED <<client, server, runner, loader, disk, filterFrame, findFrame, pdfFrame>>

\* runAllDetections has returned its summary
MainRunAllDone ==
  /\ main.pc = "runAll"
  /\ runner.pc = "done"
  /\ main' = RunAllReturned(main, runner.results)
  /\ UNCHANGED <<client, server, runner, loader, disk, filterFrame, findFrame, pdfFrame>>

MainNext ==
  \/ MainStart
  \/ MainLoadConfig
  \/ MainTestConnection
  \/ MainLoaded
  \/ MainRunOneDone
  \/ MainRunAllDone
  \/ LoaderNext
  \/ RunnerNext

\* ------------------------------------------------------- specifications
\* one querySystemLog call against one server
InitClient ==
  /\ server \in Servers
  /\ \E since \in {Undefined, "", "2024-01-01T00:00:00Z"}, limit \in 0..MaxLimit :
       client = ClientCall("eventType eq x", since, limit)
  /\ runner = RunnerIdle
  /\ loader = LoaderIdle
  /\ disk = NoDisk
  /\ main = MainIdle
  /\ filterFrame = FilterIdle
  /\ findFrame = FindIdle
  /\ pdfFrame = PdfIdle

SpecClient == InitClient /\ [][ClientNext]_vars

\* one querySystemLog call against a server that ends its log or is polled;
\* every request completes and every delay ends
InitClientLive ==
  /\ server \in Servers \cup EndlessServers
  /\ \E since \in {Undefined, "2024-01-01T00:00:00Z"}, limit \in 0..MaxLimit :
       client = ClientCall("eventType eq x", since, limit)
  /\ runner = RunnerIdle
  /\ loader = LoaderIdle
  /\ disk = NoDisk
  /\ main = MainIdle
  /\ filterFrame = FilterIdle
  /\ findFrame = FindIdle
  /\ pdfFrame = PdfIdle

SpecClientLive ==
  InitClientLive /\ [][ClientLiveNext]_vars /\ WF_vars(ClientLiveNext)

\* one runAllDetections call on a rule list
InitRunner ==
  /\ server = NoServer
  /\ client = ClientIdle
  /\ \E detections \in RuleLists, limit \in ConfigLimits :
       runner = RunnerCall(detections, [since |-> Undefined, limit |-> limit])
  /\ loader = LoaderIdle
  /\ disk = NoDisk
  /\ main = MainIdle
  /\ filterFrame = FilterIdle
  /\ findFrame = FindIdle
  /\ pdfFrame = PdfIdle

SpecRunner == InitRunner /\ [][RunnerNext]_vars

\* one loadDetections call on a cache file and a file system, and a second
\* one from the cache when the first has written it
InitLoader ==
  /\ server = NoServer
  /\ client = ClientIdle
  /\ runner = RunnerIdle
  /\ \E forceRefresh \in BOOLEAN : loader = LoaderCall(forceRefresh)
  /\ \E cache \in Caches, fails \in {"none", "mkdir", "write"} :
       disk = [cache |-> cache, cache0 |-> cache,
               mkdirFails |-> (fails = "mkdir"), writeFails |-> (fails = "write")]
  /\ main = MainIdle
  /\ filterFrame = FilterIdle
  /\ findFrame = FindIdle
  /\ pdfFrame = PdfIdle

SpecLoader == InitLoader /\ [][LoaderTwiceNext]_vars

\* one run of the program: a command line, a config.json, a cache file
InitMain ==
  /\ server = NoServer
  /\ client = ClientIdle
  /\ runner = RunnerIdle
  /\ loader = LoaderIdle
  /\ \E cache \in {NoCache} \cup {JsonStringify(l) : l \in CachedLists},
        fails \in {"none", "write"} :
       disk = [cache |-> cache, cache0 |-> cache,
               mkdirFails |-> FALSE, writeFails |-> (fails = "write")]
  /\ \E options \in CommandLines, configFile \in ConfigFiles :
       main = [MainIdle EXCEPT !.pc = "start", !.options = options,
                               !.configFile = configFile]
  /\ filterFrame = FilterIdle
  /\ findFrame = FindIdle
  /\ pdfFrame = PdfIdle

SpecMain == InitMain /\ [][MainNext]_vars

\* runSpecificDetection on a loaded list and a name
InitFind ==
  /\ server = NoServer
  /\ client = ClientIdle
  /\ runner = RunnerIdle
  /\ loader = LoaderIdle
  /\ disk = NoDisk
  /\ main = MainIdle
  /\ filterFrame = FilterIdle
  /\ \E detections \in FindLists, detectionName \in DetectionNames :
       findFrame = FindCall(detections, detectionName)
  /\ pdfFrame = PdfIdle

SpecFind == InitFind /\ [][FindNext]_vars

\* addExecutiveSummary on the summary of a run
InitPdf ==
  /\ server = NoServer
  /\ client = ClientIdle
  /\ runner = RunnerIdle
  /\ loader = LoaderIdle
  /\ disk = NoDisk
  /\ main = MainIdle
  /\ filterFrame = FilterIdle
  /\ findFrame = FindIdle
  /\ \E detectionResults \in ResultLists : pdfFrame = PdfCall(detectionResults)

SpecPdf == InitPdf /\ [][PdfNext]_vars

\* filterExecutableDetections applied to a rule list, and to its own result
InitFilter ==
  /\ server = NoServer
  /\ client = ClientIdle
  /\ runner = RunnerIdle
  /\ loader = LoaderIdle
  /\ disk = NoDisk
  /\ main = MainIdle
  /\ \E detections \in RuleLists : filterFrame = FilterCall(FilterIdle, detections)
  /\ findFrame = FindIdle
  /\ pdfFrame = PdfIdle

SpecFilter == InitFilter /\ [][FilterNext]_vars

\* ================================================================ claims
\* ---------------------------------------------------------------- client

\* a server of N pages, page k carrying `<url>; rel="next"` for k < N and no
\* next link at k = N, no request failing
PagedServer(srv) ==
  /\ srv /= NoServer
  /\ \A k \in DOMAIN srv :
       /\ srv[k].type = "ok"
       /\ k < Len(srv) => srv[k].link = "next"
       /\ k = Len(srv) => ~IncludesNext(srv[k].link)

\* the events of the first k pages
FirstPages(srv, k) == Concat(SubSeq(srv, 1, k))

\* the least number of leading pages that hold at least limit events, all the
\* pages when they never do
PagesNeeded(srv, limit) ==
  IF \E k \in 0..Len(srv) : Len(FirstPages(srv, k)) >= limit
  THEN CHOOSE k \in 0..Len(srv) :
         /\ Len(FirstPages(srv, k)) >= limit
         /\ \A j \in 0..(k - 1) : Len(FirstPages(srv, j)) < limit
  ELSE Len(srv)

\* C6: against a server of N well-linked pages querySystemLog returns (it does
\* not throw), and what it returns is the first min(limit, total) events of the
\* pages' concatenation in page order: never more than limit, exactly limit
\* when the pages hold more.
C6_PaginationResult ==
  (PagedServer(server) /\ client.pc \in {"returned", "thrown"}) =>
    LET all == Concat(server) IN
      /\ client.pc = "returned"
      /\ client.ret = SubSeq(all, 1, Min(client.limit, Len(all)))
      /\ Len(client.ret) <= client.limit
      /\ Len(all) > client.limit => Len(client.ret) = client.limit

\* a three-page call whose last page overshoots the limit
C6_Witness ==
  /\ PagedServer(server) /\ client.pc = "returned"
  /\ Len(client.requests) = 3
  /\ Len(Concat(server)) > client.limit
  /\ Len(client.results) > Len(client.ret)

\* C7 as stated: against a server of N well-linked pages one call (of a limit
\* of at least 1) makes exactly N requests.
C7_RequestCountIsN ==
  (PagedServer(server) /\ client.pc = "returned" /\ client.limit >= 1) =>
    Len(client.requests) = Len(server)

\* C7 amended: the call makes exactly as many requests as leading pages are
\* needed to hold limit events, N when the first N-1 pages hold fewer; it
\* never makes more than N.
C7_RequestCountAmended ==
  (PagedServer(server) /\ client.pc = "returned") =>
    /\ Len(client.requests) = PagesNeeded(server, client.limit)
    /\ Len(client.requests) <= Len(server)
    /\ Len(FirstPages(server, Len(server) - 1)) < client.limit
         => Len(client.requests) = Len(server)

\* a call that stopped on its limit before the last of three pages
C7_Witness ==
  /\ PagedServer(server) /\ client.pc = "returned"
  /\ Len(server) = 3
  /\ Len(client.requests) = 2

\* the error the failing request of a finished call raised in the try block
FailedWith == Raised(Serve(server, client.url))

\* C8: a failure that carries a response is rethrown with the status code and
\* the errorSummary (the reason phrase when there is none) in its message, one
\* with a request and no response as the network error, any other unchanged,
\* whatever the response body.
C8_ErrorNormalization ==
  client.pc = "thrown" =>
    LET e == FailedWith IN
      /\ e.hasResponse =>
           /\ e.status \in Range(client.thrown.message)
           /\ (IF Truthy(e.errorSummary) THEN e.errorSummary ELSE e.statusText)
                 \in Range(client.thrown.message)
      /\ (~e.hasResponse /\ e.hasRequest) =>
           client.thrown = MkError(<<"Network error: Unable to reach Okta API">>)
      /\ (~e.hasResponse /\ ~e.hasRequest) => client.thrown = e

\* C21 as stated: a call that has made N requests and returned has awaited
\* exactly N-1 pacing delays.
C21_PacingNMinusOne ==
  (client.pc = "returned" /\ Len(client.requests) >= 1) =>
    client.sleeps = Len(client.requests) - 1

\* C21 amended: no delay is awaited before the initial request and exactly
\* one between a page and the request that follows it; the delay is awaited
\* after every page received, the last one too: a call that returns after N
\* requests has awaited N delays, a call whose N-th request failed N-1.
C21_PacingAmended ==
  /\ client.pc = "while" => client.sleeps = Len(client.requests)
  /\ client.pc = "sleep" => client.sleeps = Len(client.requests) - 1
  /\ client.pc = "returned" => client.sleeps = Len(client.requests)
  /\ client.pc = "thrown" => client.sleeps = Len(client.requests) - 1
  /\ client.requests = <<>> => client.sleeps = 0

\* a call that returned after three pages and three delays
C21_Witness ==
  /\ client.pc = "returned"
  /\ Len(client.requests) = 3
  /\ client.sleeps = 3

\* ---------------------------------------------------------------- runner
DR == runner.results.detectionResults

Titles(s) == [k \in DOMAIN s |-> s[k].title]

Count(S) == Cardinality(S)

\* C1: whenever a rule's querySystemLog call raises, the error is caught: the
\* rule's entry carries the error message and no events, failed counts the
\* rules that raised, runAllDetections never throws, and a run that is over
\* has attempted every executable descriptor.
C1_PerRuleIsolation ==
  /\ runner.pc /= "thrown"
  /\ Len(DR) = Len(runner.outcomes)
  /\ \A j \in DOMAIN runner.outcomes :
       runner.outcomes[j].queryRaised /= NoError =>
         /\ DR[j].title = runner.outcomes[j].title
         /\ DR[j].hasError
         /\ DR[j].error = runner.outcomes[j].queryRaised.message
         /\ DR[j].events = <<>>
  /\ runner.results.failed =
       Count({j \in DOMAIN runner.outcomes : runner.outcomes[j].raised /= NoError})
  /\ runner.pc = "done" => runner.started = Titles(runner.executable)

\* three rules, the query of the second raises, the third is still run
C1_Witness ==
  /\ runner.pc = "done"
  /\ Len(runner.executable) = 3
  /\ runner.outcomes[2].queryRaised /= NoError
  /\ runner.outcomes[3].queryRaised = NoError
  /\ runner.results.total = 3 /\ runner.results.failed = 1 /\ runner.results.success = 2
  /\ DR[2].hasError /\ DR[2].events = <<>>
  /\ Len(runner.queried) = 3

\* C2: at the head of the loop, after i descriptors, success + failed = i =
\* detectionResults.length; in the returned summary success + failed = total =
\* detectionResults.length.
C2_CountInvariant ==
  /\ runner.pc \in {"for", "done"} =>
       /\ runner.results.success + runner.results.failed = runner.i
       /\ runner.i = Len(DR)
  /\ runner.pc = "done" =>
       /\ runner.results.success + runner.results.failed = runner.results.total
       /\ runner.results.total = Len(DR)

\* a finished run of three rules with successes and failures
C2_Witness ==
  /\ runner.pc = "done"
  /\ runner.results.total = 3
  /\ runner.results.success >= 1
  /\ runner.results.failed >= 1

\* C3: withFindings is the number of entries with a non-empty events list and
\* totalFindings the sum of their lengths; a rule that raised adds to neither.
C3_FindingsAggregation ==
  /\ runner.results.withFindings = Count({j \in DOMAIN DR : Len(DR[j].events) > 0})
  /\ runner.results.totalFindings = SumSeq([j \in DOMAIN DR |-> Len(DR[j].events)])
  /\ runner.results.withFindings =
       Count({j \in DOMAIN runner.outcomes :
                runner.outcomes[j].raised = NoError /\ Len(runner.outcomes[j].ret) > 0})
  /\ runner.results.totalFindings =
       SumSeq([j \in DOMAIN runner.outcomes |->
                 IF runner.outcomes[j].raised = NoError
                 THEN Len(runner.outcomes[j].ret) ELSE 0])

\* no events, then two events, then an error
C3_Witness ==
  /\ runner.pc = "done"
  /\ Len(DR) = 3
  /\ ~DR[1].hasError /\ DR[1].events = <<>>
  /\ Len(DR[2].events) = 2
  /\ DR[3].hasError
  /\ runner.results.withFindings = 1 /\ runner.results.totalFindings = 2
  /\ runner.results.failed = 1 /\ runner.results.success = 2

SuccessWithEvents(d) == ~d.hasError /\ d.events /= <<>>
SuccessEmpty(d) == ~d.hasError /\ d.events = <<>>
Failed(d) == d.hasError /\ d.events = <<>>

\* C4: every entry of detectionResults is in exactly one of the states
\* success-with-events, success-empty, failed: an entry with an error has no
\* events, an entry with events has no error.
C4_RuleResultInvariant ==
  \A j \in DOMAIN DR :
    /\ DR[j].hasError => DR[j].events = <<>>
    /\ DR[j].events /= <<>> => ~DR[j].hasError
    /\ Count({st \in {"withEvents", "empty", "failed"} :
                \/ st = "withEvents" /\ SuccessWithEvents(DR[j])
                \/ st = "empty" /\ SuccessEmpty(DR[j])
                \/ st = "failed" /\ Failed(DR[j])}) = 1
    /\ DR[j].hasError <=> runner.outcomes[j].raised /= NoError

\* a rule whose query met a network error is recorded next to a success with
\* events and an empty success
C4_Witness ==
  /\ runner.pc = "sleep"
  /\ Len(DR) = 3
  /\ SuccessWithEvents(DR[1]) /\ SuccessEmpty(DR[2]) /\ Failed(DR[3])
  /\ runner.outcomes[3].queryRaised /= NoError
  /\ DR[3].error = <<"Network error: Unable to reach Okta API">>

\* C5: the queries are issued in the order of the executable descriptors, which
\* is the input order, and detectionResults[j] belongs to the j-th executable
\* descriptor whether it succeeded or failed.
C5_IndexOrdered ==
  /\ \A j \in DOMAIN DR : DR[j].title = runner.executable[j].title
  /\ \A j, k \in DOMAIN runner.executable :
       j < k => runner.executable[j].title < runner.executable[k].title
  /\ runner.started = Titles(SubSeq(runner.executable, 1, Len(runner.started)))
  /\ \A j, k \in DOMAIN runner.queried :
       j < k => runner.queried[j] < runner.queried[k]
  /\ Range(runner.queried) =
       {runner.executable[j].title : j \in
          {k \in 1..Len(runner.started) : ~DescriptionThrows(runner.executable[k])}}

\* two executable rules behind a rule that is not executable, the first of
\* them failing
C5_Witness ==
  /\ runner.pc = "done"
  /\ Len(runner.detections) = 3 /\ Len(runner.executable) = 2
  /\ runner.executable[1].title = 2
  /\ DR[1].hasError /\ ~DR[2].hasError
  /\ runner.queried = <<2, 3>>

\* ---------------------------------------------------------------- program
\* a rule load or a rule query has been started in this run
RuleWorkStarted ==
  \/ main.loads > 0 \/ main.queries > 0
  \/ loader.pc /= "idle" \/ loader.requests /= <<>> \/ loader.cacheReads /= <<>>
  \/ runner.pc /= "idle" \/ runner.queried /= <<>>
  \/ client.pc /= "idle" \/ client.requests /= <<>>

\* C9 as stated, its count: every run that has ended (help runs set aside)
\* called testConnection exactly once.
C9_ExactlyOncePerRun ==
  (main.pc = "exited" /\ ~main.options.help) => main.tcCalls = 1

\* C9 amended: testConnection is called at most once, and exactly once in each
\* run that is no help run and has a valid config.json (never in the others);
\* the call comes after the configuration is loaded and before any rule load
\* or query; it ends in success or in an error that wraps the underlying
\* message; when it fails no rule is loaded or queried and the exit code is 1.
C9_StartupGate ==
  /\ main.tcCalls <= 1
  /\ main.pc = "exited" =>
       (main.tcCalls = 1 <=> (~main.options.help /\ main.configFile = "ok"))
  /\ main.tcCalls = 1 => main.config.loaded /\ main.tc \in {"ok", "failed"}
  /\ main.tcCalls = 0 => main.tc = "none"
  /\ RuleWorkStarted => main.tcCalls = 1 /\ main.tc = "ok"
  /\ main.tc = "failed" =>
       /\ ~RuleWorkStarted
       /\ main.pc = "exited" /\ main.exitCode = 1
       /\ main.thrown.message[1] = "Connection test failed: "
       /\ \E error \in RunAxiosErrors :
            main.thrown.message = <<"Connection test failed: ">> \o error.message

\* a run whose connection test failed on an unreachable tenant
C9_Witness ==
  /\ main.tc = "failed" /\ main.tcCalls = 1
  /\ main.pc = "exited" /\ main.exitCode = 1
  /\ main.thrown.message = <<"Connection test failed: ">> \o NetworkError.message

\* a run that passed the gate and queried its rules
C9_WitnessPassed ==
  /\ main.tc = "ok" /\ main.pc = "exited" /\ main.exitCode = 0
  /\ Len(runner.queried) = 2

\* ---------------------------------------------------------------- loader
FirstReadFailed == <<"first", FALSE>> \in Range(loader.cacheReads)

ListingsAsked ==
  {loader.requests[k].source : k \in {j \in DOMAIN loader.requests :
                                         loader.requests[j].kind = "listing"}}

\* C10: loadDetections(false) on a readable, parseable cache file returns the
\* cached descriptors, asks the remote collections nothing and leaves the
\* cache file as it was; when that first read fails the load goes on to ask
\* every remote collection instead of failing.
C10_CacheFirstLoad ==
  /\ (~loader.forceRefresh /\ loader.pc /= "idle" /\ CacheReadable(disk.cache0)) =>
       /\ loader.requests = <<>>
       /\ loader.writes = 0
       /\ disk.cache = disk.cache0
       /\ loader.pc /= "thrown"
       /\ loader.pc = "returned" => loader.ret = JsonParse(disk.cache0)
  /\ (FirstReadFailed /\ loader.pc \in {"returned", "thrown", "fallback"}) =>
       ListingsAsked = DOMAIN Sources

\* a cache hit that returned two cached descriptors
C10_Witness ==
  /\ ~loader.forceRefresh /\ CacheReadable(disk.cache0)
  /\ loader.pc = "returned"
  /\ Len(loader.ret) = 2
  /\ loader.cacheReads = <<<<"first", TRUE>>>>

\* a failed cache-first read followed by a load from GitHub
C10_WitnessFellThrough ==
  /\ FirstReadFailed /\ loader.pc = "returned" /\ Len(loader.ret) >= 1

\* every configured collection has had its listing requested
AllListingsAsked == ListingsAsked = DOMAIN Sources

RemoteFailedTotally ==
  /\ Len(loader.listed) = Len(Sources)
  /\ \A k \in DOMAIN loader.listed : ~loader.listed[k].ok

\* C12: the cache file is rewritten only when the remote fetch succeeded: once
\* the listing request of every collection has failed, no write is made and
\* the cache file holds what it held before the load.
C12_CacheOverwriteOnlyOnSuccess ==
  RemoteFailedTotally =>
    /\ loader.writes = 0
    /\ disk.cache = disk.cache0

\* C13: a load that went to the remote, found every listing request failing
\* and has a valid cache file ends by returning the cached descriptors.
C13_FallbackToCache ==
  (RemoteFailedTotally /\ CacheReadable(disk.cache0)
     /\ loader.pc \in {"returned", "thrown"}) =>
    /\ loader.pc = "returned"
    /\ loader.ret = JsonParse(disk.cache0)

WriteRaised == loader.error = MkError(<<"ENOSPC: no space left on device, write">>)

\* some listing request of this load failed
SomeListingFailed == \E k \in DOMAIN loader.listed : ~loader.listed[k].ok

\* the numbers of the files of collection k whose download was requested, in
\* request order
FetchedOf(k) ==
  LET RECURSIVE Sel(_)
      Sel(j) == IF j > Len(loader.fetched) THEN <<>>
                ELSE IF loader.fetched[j].source = k
                     THEN <<loader.fetched[j].file>> \o Sel(j + 1)
                     ELSE Sel(j + 1)
  IN Sel(1)

\* the descriptors a rule list holds for collection k
TitlesOf(list, k) ==
  {list[j].title : j \in {i \in DOMAIN list : list[i].sourceType = Sources[k].type}}

\* the files of collection k that were fetched and hold an OIE query
QueryFilesOf(k) ==
  {loader.fetched[j].file : j \in {i \in DOMAIN loader.fetched :
      loader.fetched[i].source = k /\ HasOIE(loader.fetched[i].kind)}}

\* C15: a listing request that throws is caught: the load goes on, every
\* other collection has its listing requested and every file it lists
\* fetched, and, unless writing the cache file fails, loadDetections returns
\* (it does not throw) a sequence that holds the descriptors of the other
\* collections.
C15_CollectionIsolation ==
  SomeListingFailed =>
    /\ loader.error /= NoError => WriteRaised
    /\ ~disk.writeFails => loader.pc \notin {"fallback", "thrown"}
    /\ loader.pc \in {"returned", "thrown"} =>
         /\ Len(loader.listed) = Len(Sources)
         /\ AllListingsAsked
         /\ \A k \in DOMAIN Sources :
              loader.listed[k].ok => FetchedOf(k) = loader.listed[k].files
    /\ (loader.pc = "returned" /\ ~disk.writeFails) =>
         \A k \in DOMAIN Sources :
           TitlesOf(loader.ret, k) =
             (IF loader.listed[k].ok THEN QueryFilesOf(k) ELSE {})

\* the listing of the first collection failed; the second collection was
\* fetched and its two rules are returned
C15_Witness ==
  /\ loader.pc = "returned"
  /\ Len(loader.listed) = 2
  /\ ~loader.listed[1].ok /\ loader.listed[2].ok
  /\ Len(loader.ret) = 2
  /\ \A j \in DOMAIN loader.ret : loader.ret[j].sourceType = "hunt"

\* the file loop of collection k is over
FileLoopOver(k) == k < loader.src /\ k <= Len(loader.listed) /\ loader.listed[k].ok

\* the fetched files whose try block raised
RaisedFiles ==
  {loader.fetched[j].file : j \in {i \in DOMAIN loader.fetched :
                                       FileRaises(loader.fetched[i].kind)}}

\* C16: a file whose download or parse fails is skipped, and the files listed
\* after it are fetched all the same: when the file loop of a collection is
\* over every listed file was requested, in listing order; a failed file is in
\* no result; a file failure never raises out of the load.
C16_FileIsolation ==
  /\ \A k \in DOMAIN Sources :
       /\ FileLoopOver(k) => FetchedOf(k) = loader.listed[k].files
       /\ (loader.pc \in {"file", "fileSleep"} /\ k = loader.src) =>
            FetchedOf(k) = SubSeq(loader.files, 1, Len(FetchedOf(k)))
  /\ \A j \in DOMAIN loader.allDetections :
       loader.allDetections[j].filename \notin RaisedFiles
  /\ (loader.pc = "returned" /\ loader.writes = 1) =>
       \A j \in DOMAIN loader.ret : loader.ret[j].filename \notin RaisedFiles
  /\ (RaisedFiles /= {} /\ loader.error /= NoError) => WriteRaised
  /\ (RaisedFiles /= {} /\ ~disk.writeFails) => loader.pc \notin {"fallback", "thrown"}

\* the first of two listed files fails to download, the second is loaded
C16_Witness ==
  /\ loader.pc = "returned"
  /\ Len(loader.listed) = 2 /\ Len(loader.fetched) >= 2
  /\ loader.listed[1].ok /\ Len(loader.listed[1].files) = 2
  /\ loader.fetched[1].kind = "loadFail"
  /\ loader.fetched[2].kind = "oie"
  /\ loader.fetched[2].file \in {loader.ret[j].filename : j \in DOMAIN loader.ret}

\* the file holds a query text at detection.okta_systemlog.OIE
HoldsOIEQuery(kind) == RawQuery(kind) /= Undefined

\* the file was downloaded and yaml.load returned
FetchedAndParsed(kind) == kind /= "loadFail"

\* the fetched files that hold an OIE query, in request order
IncludedFiles ==
  LET RECURSIVE Sel(_)
      Sel(j) == IF j > Len(loader.fetched) THEN <<>>
                ELSE IF HoldsOIEQuery(loader.fetched[j].kind)
                     THEN <<loader.fetched[j]>> \o Sel(j + 1)
                     ELSE Sel(j + 1)
  IN Sel(1)

\* the returned sequence holds exactly the files with an OIE query, each
\* tagged 'OIE' and with its collection's category, its query the trimmed
\* OIE text, and the cache file holds the same sequence
IncludedIffOIE ==
  /\ Len(loader.ret) = Len(IncludedFiles)
  /\ \A j \in DOMAIN loader.ret :
       /\ loader.ret[j].filename = IncludedFiles[j].file
       /\ loader.ret[j].queryType = "OIE"
       /\ loader.ret[j].sourceType = Sources[IncludedFiles[j].source].type
       /\ loader.ret[j].query = Trim(RawQuery(IncludedFiles[j].kind))
       /\ loader.ret[j].query \in {"eventType eq x", ""}
  /\ disk.cache = JsonStringify(loader.ret)
  /\ loader.totalLoadedCount = Len(loader.ret)

Executable(d) == d.queryType = "OIE" /\ d.query \notin {"", Undefined}

\* C18: filterExecutableDetections returns exactly the executable descriptors
\* of its argument, each once and in the argument's order; the argument is as
\* it was when the call was made; applied to its own result it returns that
\* result.
C18_FilterExecutable ==
  filterFrame.pc = "returned" =>
    LET arg == filterFrame.detections
        out == filterFrame.ret
    IN /\ Range(out) = {d \in Range(arg) : Executable(d)}
       /\ Len(out) = Count({d \in Range(arg) : Executable(d)})
       /\ \A j, k \in DOMAIN out : j < k => out[j].title < out[k].title
       /\ arg = filterFrame.arg0
       /\ filterFrame.calls = 2 => out = arg

\* of three descriptors the OIE rule with an empty query and the Splunk rule
\* are dropped, the third is kept
C18_Witness ==
  /\ filterFrame.pc = "returned" /\ filterFrame.calls = 1
  /\ Len(filterFrame.detections) = 3
  /\ filterFrame.detections[1].queryType = "OIE" /\ filterFrame.detections[1].query = ""
  /\ filterFrame.detections[2].queryType = "Splunk"
  /\ Len(filterFrame.ret) = 1 /\ filterFrame.ret[1].title = 3

\* the second application has returned what the first returned
C18_WitnessTwice ==
  /\ filterFrame.pc = "returned" /\ filterFrame.calls = 2
  /\ Len(filterFrame.ret) = 2

\* C19: runAllDetections starts no descriptor that is not executable, and the
\* descriptors a finished run has attempted and counted are those
\* filterExecutableDetections returns for its argument.
C19_RunsExecutableOnly ==
  /\ \A j \in DOMAIN runner.detections :
       ~Executable(runner.detections[j]) =>
         /\ runner.detections[j].title \notin Range(runner.started)
         /\ runner.detections[j].title \notin Range(runner.queried)
  /\ runner.pc = "done" =>
       /\ runner.started = Titles(FilterExecutableDetections(runner.detections))
       /\ runner.results.total = Len(FilterExecutableDetections(runner.detections))
       /\ runner.results.success + runner.results.failed
            = Len(FilterExecutableDetections(runner.detections))

\* the log queries started and not yet settled
InFlight ==
  Len(runner.queried)
    - Count({j \in DOMAIN runner.outcomes : ~DescriptionThrows(runner.executable[j])})

\* C20: a rule is started only when every earlier rule has its result
\* recorded and its delay awaited, whether it succeeded or failed; while a
\* query is awaited nothing else of the run moves; at most one log query is
\* in flight.
C20_OneAtATime ==
  /\ runner.pc = "for" =>
       /\ Len(runner.started) = runner.i /\ Len(DR) = runner.i
       /\ runner.sleeps = runner.i
       /\ InFlight = 0 /\ client.pc = "idle"
  /\ runner.pc = "query" =>
       /\ Len(runner.started) = runner.i + 1 /\ Len(DR) = runner.i
       /\ runner.sleeps = runner.i
       /\ InFlight = 1 /\ client.pc /= "idle"
       /\ runner.queried[Len(runner.queried)] = Current(runner).title
  /\ runner.pc = "sleep" =>
       /\ Len(runner.started) = runner.i + 1 /\ Len(DR) = runner.i + 1
       /\ runner.sleeps = runner.i
       /\ InFlight = 0 /\ client.pc = "idle"
  /\ runner.pc = "done" =>
       /\ runner.sleeps = Len(runner.executable)
       /\ InFlight = 0 /\ client.pc = "idle"
  /\ InFlight \in {0, 1}

\* the query of the third rule is in flight; the first rule failed, the
\* second succeeded, and a delay followed each
C20_Witness ==
  /\ runner.pc = "query" /\ runner.i = 2
  /\ Len(DR) = 2 /\ DR[1].hasError /\ ~DR[2].hasError
  /\ runner.sleeps = 2
  /\ Len(client.requests) = 1

\* ----------------------------------------------------------- single rule
\* the run took the single-rule path and started the rule's query
RanOne == main.queries = 1 /\ main.found /= <<>>

\* the single-rule path aggregates nothing: no summary, no report
NoAggregation ==
  /\ runner.pc = "idle"
  /\ runner.results = NewResults(0)
  /\ runner.reports = 0

\* C22 as stated: runDetection aggregates nothing, hands back the rule's
\* result object, and lets a query error through to its caller.
C22_SingleRulePath ==
  (RanOne /\ main.pc = "exited") =>
    /\ NoAggregation
    /\ client.pc = "returned" =>
         main.ret = JsObject(DetectionResult(main.found[1], client.ret))
    /\ client.pc = "thrown" => main.thrown = client.thrown

\* C22 amended: runDetection aggregates nothing, hands back the number of
\* events of the rule's result, and lets a query error through to its caller:
\* the error querySystemLog threw is the one the catch of run() receives, and
\* nothing is handed back.
C22_SingleRulePathAmended ==
  /\ RanOne => NoAggregation
  /\ (RanOne /\ main.pc = "exited") =>
       /\ client.pc = "returned" =>
            /\ main.ret = JsNumber(Len(client.ret))
            /\ main.thrown = NoError
       /\ client.pc = "thrown" =>
            /\ main.thrown = client.thrown
            /\ main.ret = JsUndefined
            /\ main.exitCode = 1

\* the query of the named rule met a network error, which reached run()
C22_Witness ==
  /\ RanOne /\ main.pc = "exited"
  /\ client.pc = "thrown"
  /\ main.thrown = MkError(<<"Network error: Unable to reach Okta API">>)

\* the query of the named rule returned one event
C22_WitnessReturned ==
  /\ RanOne /\ main.pc = "exited"
  /\ client.pc = "returned"
  /\ main.ret = JsNumber(1)

\* --------------------------------------------------------------- exit code
\* loadDetections threw
LoadFailed ==
  /\ main.thrown.message /= <<>>
  /\ main.thrown.message[1] =
       "Failed to load detections and hunts from GitHub and no cache available: "

\* the rule named with --detection is not among the loaded rules
NamedRuleNotFound ==
  /\ main.options.detection /= 0 /\ ~main.options.list
  /\ main.tc = "ok" /\ ~LoadFailed
  /\ Find(main.detections, main.options.detection) = 0

\* a fatal startup error: missing or invalid configuration, failed connection
\* test, failed rule load, named rule not found
StartupError ==
  /\ ~main.options.help
  /\ \/ main.configFile /= "ok"
     \/ main.tc = "failed"
     \/ LoadFailed
     \/ NamedRuleNotFound

C23_WitnessRunOne ==
  /\ main.pc = "exited" /\ main.exitCode = 1
  /\ RanOne /\ client.pc = "thrown"
  /\ ~StartupError

\* ---------------------------------------------------------------- retries
\* how often x occurs in the sequence s
Occurrences(s, x) == Count({k \in DOMAIN s : s[k] = x})

\* inside the current querySystemLog call no URL is requested twice, and only
\* the last request can be one that failed: the first failure ends the call
NoPageRetry ==
  client.pc /= "idle" =>
    /\ \A j, k \in DOMAIN client.requests :
         j < k => client.requests[j].url /= client.requests[k].url
    /\ \A k \in 1..(Len(client.requests) - 1) :
         Raised(Serve(server, client.requests[k].url)) = NoError
    /\ client.pc = "thrown" =>
         /\ client.requests /= <<>>
         /\ Raised(Serve(server, client.requests[Len(client.requests)].url)) /= NoError

C24_WitnessPage ==
  /\ runner.pc = "query"
  /\ client.pc = "thrown"
  /\ Len(client.requests) = 2

\* --------------------------------------------------------- authentication
\* the error of a query the server answered with 401 or 403
IsAuthError(e) == Len(e.message) >= 2 /\ e.message[2] \in {"401", "403"}

\* C25: once the query of a rule has failed with status 401 or 403 the run is
\* aborted: no later rule is started.
C25_AuthAborts ==
  \A j \in DOMAIN runner.outcomes :
    IsAuthError(runner.outcomes[j].queryRaised) => Len(runner.started) <= j

C26_WitnessNoCache ==
  /\ main.options.offline /\ disk.cache0 = NoCache
  /\ Len(main.detections) >= 1

\* a load that fetched from the remote and wrote the cache file has returned
RemoteLoadDone ==
  loader.calls = 1 /\ loader.pc = "returned" /\ loader.writes = 1

\* the load from the cache that follows a remote load has returned
ReloadDone == loader.calls = 2 /\ loader.pc = "returned"

\* two descriptors that differ at most in the date field, which in the second
\* is what JSON makes of the date of the first
SameButDate(d, e) ==
  /\ e = [d EXCEPT !.date = e.date]
  /\ e.date = JsonValue(d.date)

\* C27 as stated: after a load that fetched from the remote, the cache file
\* holds the descriptors the load returned and nothing of what it held
\* before, and the loadDetections(false) that follows returns the same
\* descriptors in the same order.
C27_CacheRoundTrip ==
  /\ RemoteLoadDone => JsonParse(disk.cache) = JsonParse(JsonStringify(loader.ret))
  /\ ReloadDone => loader.ret = loader.ret0

\* C27 amended: the cache file is replaced by the JSON text of the returned
\* list, and the loadDetections(false) that follows makes no request and
\* returns as many descriptors in the same order, each equal to the one the
\* remote load returned except that a field yaml.load made a Date is the ISO
\* string of that date.
C27_CacheRoundTripAmended ==
  /\ RemoteLoadDone => disk.cache = JsonStringify(loader.ret)
  /\ loader.calls = 2 =>
       /\ disk.cache = JsonStringify(loader.ret0)
       /\ loader.requests = <<>>
       /\ loader.writes = 0
       /\ loader.pc \in {"mkdir", "cacheRead", "returned"}
  /\ ReloadDone =>
       /\ Len(loader.ret) = Len(loader.ret0)
       /\ \A k \in DOMAIN loader.ret0 : SameButDate(loader.ret0[k], loader.ret[k])

\* a cache file of two descriptors was replaced by the two descriptors of a
\* remote load, one of them with a date, and the load from the cache that
\* followed has returned
C27_Witness ==
  /\ ReloadDone
  /\ CacheReadable(loader.before) /\ Len(JsonParse(loader.before)) = 2
  /\ Len(loader.ret0) = 2
  /\ \E k \in DOMAIN loader.ret0 : loader.ret0[k].date = DateObject
  /\ \E k \in DOMAIN loader.ret0 : loader.ret0[k].date = Undefined

\* C28: whenever two files of one collection were fetched one after the
\* other, the delay of the file loop was awaited after the earlier fetch,
\* whether that file was included, skipped or failed.
C28_FilePacing ==
  \A j \in 1..(Len(loader.fetched) - 1) :
    loader.fetched[j].source = loader.fetched[j + 1].source =>
      loader.fetched[j].slept

\* a step of the run leaves the rule list it was called with, and the list
\* of executable descriptors filtered from it, as they were
DescriptorsKept ==
  /\ runner'.detections = runner.detections
  /\ runner'.executable = runner.executable

\* the entries of detectionResults hand on what the descriptor and the query
\* gave them
PassedThrough ==
  /\ runner.executable = FilterExecutable(runner.detections)
  /\ \A j \in DOMAIN runner.executable :
       runner.executable[j] \in Range(runner.detections)
  /\ \A j \in DOMAIN DR :
       /\ DR[j].title = runner.executable[j].title
       /\ DR[j].description = runner.executable[j].description
       /\ DR[j].false_positives = runner.executable[j].false_positives
       /\ ~DR[j].hasError => DR[j].events = runner.outcomes[j].ret

\* C29: no step of runAllDetections or runDetectionWithEvents changes a
\* descriptor of the input list; every entry of detectionResults carries the
\* title, description and false_positives of its descriptor as they are, and
\* the events of a successful entry are the sequence querySystemLog returned
\* for that rule, in the same order.
C29_PassThrough == [][DescriptorsKept]_vars /\ []PassedThrough

\* a finished run on three descriptors, two of them executable, where a
\* query returned two events that are the events of its entry
C29_Witness ==
  /\ runner.pc = "done"
  /\ Len(runner.detections) = 3 /\ Len(runner.executable) = 2
  /\ Len(DR) = 2
  /\ ~DR[1].hasError /\ Len(DR[1].events) = 2
  /\ DR[1].events = runner.outcomes[1].ret
  /\ DR[1].events[1] /= DR[1].events[2]
  /\ DR[2].hasError

\* the k-th response of the call carried a link the client follows
CarriedNext(k) == IncludesNext(server[k].link) /\ NextMatch(server[k].link)

\* C30: within one querySystemLog call the first request is made only for a
\* positive limit, and the k-th request, k > 1, asks for the page the link of
\* response k-1 names and is made only when that response carried a
\* rel="next" link and the events of the first k-1 responses are fewer than
\* limit; so once a response has no such link, or limit events are
\* accumulated, no request follows.
C30_StopCondition ==
  /\ Len(client.requests) <= Len(server)
  /\ Len(client.requests) >= 1 => 0 < client.limit
  /\ \A k \in 2..Len(client.requests) :
       /\ client.requests[k].url.after = k - 1
       /\ CarriedNext(k - 1)
       /\ Len(FirstPages(server, k - 1)) < client.limit

\* a call that returned after two requests because limit events were
\* accumulated, though the second response carried a rel="next" link
C30_Witness ==
  /\ client.pc = "returned"
  /\ Len(client.requests) = 2 /\ Len(server) = 3
  /\ CarriedNext(2)
  /\ Len(FirstPages(server, 1)) < client.limit
  /\ Len(FirstPages(server, 2)) >= client.limit

\* a call that returned after three requests because the third response had
\* no rel="next" link, with fewer than limit events accumulated
C30_WitnessNoLink ==
  /\ client.pc = "returned"
  /\ Len(client.requests) = 3 /\ Len(server) = 3
  /\ ~IncludesNext(server[3].link)
  /\ Len(FirstPages(server, 3)) < client.limit

\* C31: the first request of a querySystemLog call asks /logs with filter,
\* limit, sortOrder DESCENDING and, only when a since value was given, since;
\* every later request asks the URL of the rel="next" link of the response
\* before it and carries no parameter.
C31_RequestParams ==
  /\ Len(client.requests) >= 1 =>
       LET first == client.requests[1] IN
         /\ first.url = LogsUrl
         /\ first.params.filter = client.filter
         /\ first.params.limit = client.limit
         /\ first.params.sortOrder = "DESCENDING"
         /\ first.params.since =
              (IF client.since \in {Undefined, ""} THEN Undefined ELSE client.since)
  /\ \A k \in 2..Len(client.requests) :
       /\ client.requests[k].url = ReplaceBase(NextLink(server[k - 1]))
       /\ client.requests[k].url /= LogsUrl
       /\ client.requests[k].params = NoParams

\* a call with a since value that paged through three responses
C31_Witness ==
  /\ client.pc = "returned"
  /\ Len(client.requests) = 3
  /\ client.since = "2024-01-01T00:00:00Z"
  /\ client.requests[1].params.since = client.since
  /\ client.requests[3].params = NoParams

\* a call given an empty since value has made its first request, without it
C31_WitnessNoSince ==
  /\ Len(client.requests) >= 1
  /\ client.since = ""
  /\ client.requests[1].params.since = Undefined

\* two letters that are the same when case is ignored
SameLetter(a, b) == a = b \/ {a, b} \in {{"a", "A"}, {"d", "D"}}

\* text holds part somewhere, case ignored
ContainsIgnoringCase(text, part) ==
  \E i \in 1..(Len(text) - Len(part) + 1) :
    \A j \in 1..Len(part) : SameLetter(text[i + j - 1], part[j])

\* the title or the file name of the descriptor contains the name
NameMatches(d, name) ==
  \/ d.title.type = "string" /\ ContainsIgnoringCase(d.title.chars, name)
  \/ ContainsIgnoringCase(d.filename.chars, name)

MatchingRules ==
  {k \in DOMAIN findFrame.detections :
     NameMatches(findFrame.detections[k], findFrame.detectionName)}

\* C32: once runSpecificDetection has chosen, the rule it runs is the first
\* descriptor of the list whose title or file name contains the name, case
\* ignored, and only that one; when no descriptor matches, no rule is run and
\* the process exits with a non-zero code.
C32_NamedRuleSelection ==
  findFrame.pc \in {"running", "exited"} =>
    IF MatchingRules = {}
    THEN findFrame.pc = "exited" /\ findFrame.exitCode /= 0 /\ findFrame.ran = <<>>
    ELSE /\ findFrame.pc = "running"
         /\ findFrame.ran = <<CHOOSE k \in MatchingRules : \A j \in MatchingRules : k <= j>>

\* C33: generateReport is called at most once in a run, and only when every
\* executable rule has its entry in the summary; a run that is over has called
\* it exactly once with the summary it returns, and has returned that summary
\* whether the report was written or its generation failed; the failure never
\* leaves runAllDetections.
C33_ReportStep ==
  /\ runner.reports <= 1
  /\ runner.pc /= "thrown"
  /\ (runner.reports = 1) <=> (runner.pc = "done")
  /\ runner.reports = 0 => runner.pdf = "none"
  /\ runner.pc = "done" =>
       /\ runner.pdf \in {"written", "failed"}
       /\ Len(DR) = Len(runner.executable)
       /\ Titles(runner.findings.detectionResults) = Titles(runner.executable)
       /\ runner.findings = runner.results
       /\ runner.ret = runner.findings

\* a run of three rules whose report could not be generated has returned its
\* summary
C33_Witness ==
  /\ runner.pc = "done"
  /\ runner.pdf = "failed"
  /\ Len(runner.executable) = 3
  /\ Len(runner.ret.detectionResults) = 3
  /\ runner.ret.failed >= 1 /\ runner.ret.withFindings >= 1

\* a run without an executable rule has written its report
C33_WitnessEmpty ==
  /\ runner.pc = "done"
  /\ runner.pdf = "written"
  /\ runner.executable = <<>>

\* the entries of the summary that have events
WithEvents ==
  {k \in DOMAIN pdfFrame.detectionResults :
     pdfFrame.detectionResults[k].events /= <<>>}

\* C34: the risk level the report shows is LOW when no entry of the summary
\* has events, MODERATE when one to three entries have, HIGH when more than
\* three have; entries of rules that failed do not count, and a summary in
\* which every rule failed gives LOW.
C34_RiskLevel ==
  pdfFrame.pc = "written" =>
    /\ pdfFrame.riskLevel \in {"LOW", "MODERATE", "HIGH"}
    /\ pdfFrame.riskLevel = "LOW" <=> Cardinality(WithEvents) = 0
    /\ pdfFrame.riskLevel = "MODERATE" <=> Cardinality(WithEvents) \in 1..3
    /\ pdfFrame.riskLevel = "HIGH" <=> Cardinality(WithEvents) > 3
    /\ (\A k \in DOMAIN pdfFrame.detectionResults :
          pdfFrame.detectionResults[k].hasError) => pdfFrame.riskLevel = "LOW"

\* a summary of four rules with events and one that failed is HIGH
C34_Witness ==
  /\ pdfFrame.pc = "written"
  /\ Len(pdfFrame.detectionResults) = 5
  /\ Cardinality(WithEvents) = 4
  /\ pdfFrame.detectionResults[2].hasError
  /\ pdfFrame.riskLevel = "HIGH"

\* a summary of five rules that all failed is LOW
C34_WitnessAllFailed ==
  /\ pdfFrame.pc = "written"
  /\ Len(pdfFrame.detectionResults) = 5
  /\ \A k \in 1..5 : pdfFrame.detectionResults[k].hasError
  /\ pdfFrame.riskLevel = "LOW"

\* a summary with three rules that have events is MODERATE
C34_WitnessModerate ==
  /\ pdfFrame.pc = "written"
  /\ Cardinality(WithEvents) = 3
  /\ pdfFrame.riskLevel = "MODERATE"

\* C35: a querySystemLog call with a limit of at least 1, every request of
\* which completes, eventually returns or throws, whatever links the
\* responses carry.
C35_PaginationTerminates ==
  client.limit >= 1 => <>(client.pc \in {"returned", "thrown"})

\* the rules whose query brought events that count
Findings ==
  {j \in DOMAIN runner.outcomes :
     ~runner.outcomes[j].refused /\ ~DR[j].hasError /\ DR[j].events /= <<>>}

\* C36: a querySystemLog call whose last request failed has thrown and
\* delivers none of the events of the pages before it; the entry of that rule
\* in the summary carries the error and no events, and the rule adds nothing
\* to withFindings and totalFindings.
C36_NoPartialResults ==
  /\ (client.pc \in {"returned", "thrown"} /\ LastRefused(client, server)) =>
       client.pc = "thrown" /\ client.ret = <<>>
  /\ \A j \in DOMAIN runner.outcomes :
       runner.outcomes[j].refused =>
         /\ runner.outcomes[j].queryRaised /= NoError
         /\ runner.outcomes[j].ret = <<>>
         /\ DR[j].hasError
         /\ DR[j].error = runner.outcomes[j].queryRaised.message
         /\ DR[j].events = <<>>
  /\ runner.results.withFindings = Cardinality(Findings)
  /\ runner.results.totalFindings =
       SumSeq([j \in DOMAIN DR |-> IF j \in Findings THEN Len(DR[j].events) ELSE 0])

\* the query of the second rule of a run has thrown at its second request,
\* with the event of its first page accumulated and nothing delivered
C36_Witness ==
  /\ runner.pc = "query" /\ Len(DR) = 1
  /\ client.pc = "thrown"
  /\ Len(client.requests) = 2 /\ LastRefused(client, server)
  /\ Len(client.results) = 1
  /\ client.ret = <<>>

\* a finished run of two rules, the query of the second refused: its entry
\* has the error and no events, and the findings are those of the first
C36_WitnessRecorded ==
  /\ runner.pc = "done"
  /\ Len(runner.outcomes) = 2
  /\ ~runner.outcomes[1].refused /\ Len(DR[1].events) = 2
  /\ runner.outcomes[2].refused
  /\ DR[2].hasError /\ DR[2].events = <<>>
  /\ runner.results.withFindings = 1 /\ runner.results.totalFindings = 2

\* the listing of every collection was fetched and fs.writeFile then failed
FetchedThenWriteRaised ==
  /\ WriteRaised
  /\ Len(loader.listed) = Len(Sources)
  /\ ~SomeListingFailed

\* C37: a load whose remote fetch succeeded and whose cache write failed
\* returns the descriptors it has just fetched; it neither returns the
\* descriptors of the cache file nor throws.
C37_WriteFailureKeepsFetched ==
  (FetchedThenWriteRaised /\ loader.pc \in {"returned", "thrown"}) =>
    /\ loader.pc = "returned"
    /\ loader.ret = loader.allDetections

\* C38: an entry of the summary carries an error only when the
\* querySystemLog call of its rule raised, and a rule whose query returned
\* events has an entry without error that carries those events, whatever its
\* description and false_positives hold.
C38_FailureAttribution ==
  \A j \in DOMAIN DR :
    /\ DR[j].hasError => runner.outcomes[j].queryRaised /= NoError
    /\ (runner.outcomes[j].queryRaised = NoError /\ runner.outcomes[j].ret /= <<>>) =>
         ~DR[j].hasError /\ DR[j].events = runner.outcomes[j].ret

====
